---------------------------- MODULE Spec2Model ----------------------------
(***************************************************************************)
(* Progressive spectrogram tile cache of batblip                           *)
(* (src/src/canvas/tile_cache.rs): LOD table, byte-budgeted LRU tile       *)
(* stores, in-flight sets and the cooperative tile tasks.                  *)
(*                                                                         *)
(* One step of a task is the code it runs between two yields: the browser  *)
(* event loop is single-threaded, so everything between two                *)
(* yield_to_browser().await points is atomic.                              *)
(***************************************************************************)
EXTENDS Integers, Sequences, FiniteSets, Bags, TLC

VARIABLES
    files,              \* state.files: the loaded files, a Vec (0-based in the code)
    current_file_index, \* state.current_file_index: {} for None, {i} for Some(i)
    spect_fft_mode,     \* state.spect_fft_mode: the user-selected (single) FFT size
    cache,              \* CACHE, FLOW_CACHE, REASSIGN_CACHE, CHROMA_CACHE by mode
    inflight,           \* IN_FLIGHT, FLOW_IN_FLIGHT, REASSIGN_IN_FLIGHT, CHROMA_IN_FLIGHT
    tasks,              \* the spawn_local futures that have not finished (a bag)
    tile_ready_signal,  \* state.tile_ready_signal
    lastOp,             \* history: the last operation that changed the state
    keep_orig,          \* history: whether a task records the file it was
                        \* scheduled for (fixed along a behaviour)
    oplog,              \* history: the calls a test sequence has made,
                        \* oldest first
    chroma_global_max   \* CHROMA_GLOBAL_MAX: file_idx -> (max_class, max_note)

envVars   == <<files, current_file_index, spect_fft_mode, keep_orig, oplog,
               chroma_global_max>>
storeVars == <<cache, inflight>>
taskVars  == <<tasks>>
vars == <<files, current_file_index, spect_fft_mode, cache, inflight, tasks,
          tile_ready_signal, lastOp, keep_orig, oplog, chroma_global_max>>

---------------------------------------------------------------------------
(* Program constants *)

TILE_COLS == 256

MAX_BYTES == 120 * 1024 * 1024

NUM_LODS == 4

\* LOD_CONFIGS[lod] of the code is LOD_CONFIGS[lod + 1] here (1-based tuples).
LOD_CONFIGS ==
    << [fft_size |-> 2048, hop_size |-> 2048],
       [fft_size |-> 2048, hop_size |-> 512],
       [fft_size |-> 2048, hop_size |-> 128],
       [fft_size |-> 2048, hop_size |-> 32] >>

FftOf(lod) == LOD_CONFIGS[lod + 1].fft_size
HopOf(lod) == LOD_CONFIGS[lod + 1].hop_size

Max(a, b) == IF a >= b THEN a ELSE b
Min(a, b) == IF a <= b THEN a ELSE b

\* usize::saturating_sub
SatSub(a, b) == IF a >= b THEN a - b ELSE 0

\* usize::abs_diff
AbsDiff(a, b) == IF a >= b THEN a - b ELSE b - a

\* An f64 zoom is its value in thousandths (a whole number), or NaN.
Milli(v) == [nan |-> FALSE, milli |-> v]
NaN == [nan |-> TRUE, milli |-> 0]

\* zoom >= bound of f64 (bound in thousandths): false for NaN
ZoomGeq(zoom, bound) == ~zoom.nan /\ zoom.milli >= bound

\* select_lod with its LOD-2 threshold at 4.0
select_lod_Shifted(zoom) ==
    IF ZoomGeq(zoom, 8000) THEN 3
    ELSE IF ZoomGeq(zoom, 4000) THEN 2
    ELSE IF ZoomGeq(zoom, 500) THEN 1
    ELSE 0

\* select_lod(zoom): zoom is pixels per LOD1 column
select_lod(zoom) ==
    IF ZoomGeq(zoom, 8000) THEN 3
    ELSE IF ZoomGeq(zoom, 2000) THEN 2
    ELSE IF ZoomGeq(zoom, 500) THEN 1
    ELSE 0

\* tile_count_for_samples that rounds the tile count down
tile_count_for_samples_Floor(total_samples, lod) ==
    IF total_samples < FftOf(lod) THEN 0
    ELSE ((total_samples - FftOf(lod)) \div HopOf(lod) + 1) \div TILE_COLS

tile_count_for_samples(total_samples, lod) ==
    IF total_samples < FftOf(lod) THEN 0
    ELSE (((total_samples - FftOf(lod)) \div HopOf(lod) + 1) + TILE_COLS - 1)
            \div TILE_COLS

\* fallback_tile_info that leaves the window in file columns
fallback_tile_info_NoRebase(target_lod, target_tile, fallback_lod) ==
    LET sample_start == target_tile * TILE_COLS * HopOf(target_lod)
        sample_end   == sample_start + TILE_COLS * HopOf(target_lod)
        fb_col_start == sample_start \div HopOf(fallback_lod)
        fb_col_end   == sample_end \div HopOf(fallback_lod)
    IN  <<fb_col_start \div TILE_COLS, fb_col_start, fb_col_end>>

\* fallback_tile_info.  The f64 quotients are exact and whole: every hop
\* divides TILE_COLS * hop of every level (256 * 32 = 4 * 2048), and the
\* sample positions of a file are far below 2^53.
fallback_tile_info(target_lod, target_tile, fallback_lod) ==
    LET target_hop   == HopOf(target_lod)
        fb_hop       == HopOf(fallback_lod)
        sample_start == target_tile * TILE_COLS * target_hop
        sample_end   == sample_start + TILE_COLS * target_hop
        fb_col_start == sample_start \div fb_hop
        fb_col_end   == sample_end \div fb_hop
        fb_tile      == fb_col_start \div TILE_COLS
        fb_src_start == fb_col_start - fb_tile * TILE_COLS
        fb_src_end   == fb_col_end - fb_tile * TILE_COLS
    IN  <<fb_tile, fb_src_start, fb_src_end>>

---------------------------------------------------------------------------
(* The tile store: TileCache and ChromaTileCache (same code, other key)   *)

Modes == {"mag", "flow", "reassign", "chroma"}

\* A CacheKey is <<file_idx, lod, tile_idx>>, a ChromaKey <<file_idx, tile_idx>>.
KeyFile(key) == key[1]
KeyTile(key) == key[Len(key)]

\* TileCache::new
EmptyCache == [tiles |-> << >>, lru |-> << >>, total_bytes |-> 0]

Resident(c) == DOMAIN c.tiles

\* Vec::retain(|k| k != &key)
RECURSIVE Retain(_, _)
Retain(s, key) ==
    IF s = << >> THEN << >>
    ELSE IF Head(s) = key THEN Retain(Tail(s), key)
         ELSE <<Head(s)>> \o Retain(Tail(s), key)

\* HashMap::remove
MapRemove(m, key) == [k \in (DOMAIN m) \ {key} |-> m[k]]

\* HashMap::insert
MapPut(m, key, v) == [k \in (DOMAIN m) \cup {key} |-> IF k = key THEN v ELSE m[k]]

\* "Remove old entry if replacing" of insert
DropOld(c, key) ==
    IF key \in DOMAIN c.tiles
    THEN [tiles       |-> MapRemove(c.tiles, key),
          lru         |-> Retain(c.lru, key),
          total_bytes |-> SatSub(c.total_bytes, c.tiles[key].bytes)]
    ELSE c

\* The eviction loop with >= for > : it also evicts when the new tile fits
\* exactly
RECURSIVE EvictUntil_AtCap(_, _)
EvictUntil_AtCap(c, bytes) ==
    IF c.total_bytes + bytes >= MAX_BYTES /\ c.lru # << >>
    THEN LET oldest == Head(c.lru)
         IN  EvictUntil_AtCap(
                 IF oldest \in DOMAIN c.tiles
                 THEN [tiles       |-> MapRemove(c.tiles, oldest),
                       lru         |-> Tail(c.lru),
                       total_bytes |-> SatSub(c.total_bytes, c.tiles[oldest].bytes)]
                 ELSE [c EXCEPT !.lru = Tail(c.lru)],
                 bytes)
    ELSE c

\* "Evict until under cap": the while loop of insert
RECURSIVE EvictUntil(_, _)
EvictUntil(c, bytes) ==
    IF c.total_bytes + bytes > MAX_BYTES /\ c.lru # << >>
    THEN LET oldest == Head(c.lru)
         IN  EvictUntil(
                 IF oldest \in DOMAIN c.tiles
                 THEN [tiles       |-> MapRemove(c.tiles, oldest),
                       lru         |-> Tail(c.lru),
                       total_bytes |-> SatSub(c.total_bytes, c.tiles[oldest].bytes)]
                 ELSE [c EXCEPT !.lru = Tail(c.lru)],
                 bytes)
    ELSE c

\* insert that forgets to drop the entry it replaces
Insert_NoDropOld(c, key, tile) ==
    LET e == EvictUntil(c, tile.bytes)
    IN  [tiles       |-> MapPut(e.tiles, key, tile),
         lru         |-> Append(e.lru, key),
         total_bytes |-> e.total_bytes + tile.bytes]

\* insert that puts the key at the front of lru, where the oldest key is
Insert_PushFront(c, key, tile) ==
    LET e == EvictUntil(DropOld(c, key), tile.bytes)
    IN  [tiles       |-> MapPut(e.tiles, key, tile),
         lru         |-> <<key>> \o e.lru,
         total_bytes |-> e.total_bytes + tile.bytes]

\* TileCache::insert / ChromaTileCache::insert
Insert(c, key, tile) ==
    LET e == EvictUntil(DropOld(c, key), tile.bytes)
    IN  [tiles       |-> MapPut(e.tiles, key, tile),
         lru         |-> Append(e.lru, key),
         total_bytes |-> e.total_bytes + tile.bytes]

\* touch that leaves the key where it is
Touch_NoMove(c, key) == c

\* TileCache::touch / ChromaTileCache::touch
Touch(c, key) == [c EXCEPT !.lru = Append(Retain(c.lru, key), key)]

\* The removal loop shared by evict_far_from and clear_for_file.  The keys
\* are distinct, so the result does not depend on the HashMap's iteration
\* order; the model removes them in one go.
RECURSIVE SumBytes(_, _)
SumBytes(tiles, keys) ==
    IF keys = {} THEN 0
    ELSE LET k == CHOOSE x \in keys : TRUE
         IN  tiles[k].bytes + SumBytes(tiles, keys \ {k})

RECURSIVE RetainNotIn(_, _)
RetainNotIn(s, keys) ==
    IF s = << >> THEN << >>
    ELSE IF Head(s) \in keys THEN RetainNotIn(Tail(s), keys)
         ELSE <<Head(s)>> \o RetainNotIn(Tail(s), keys)

RemoveKeys(c, keys) ==
    [tiles       |-> [k \in (DOMAIN c.tiles) \ keys |-> c.tiles[k]],
     lru         |-> RetainNotIn(c.lru, keys),
     total_bytes |-> SatSub(c.total_bytes, SumBytes(c.tiles, keys))]

\* evict_far_from with the radius itself evicted
evict_far_from_Inclusive(c, file_idx, lod, center_tile, keep_radius) ==
    RemoveKeys(c, {k \in DOMAIN c.tiles :
                      /\ k[1] = file_idx
                      /\ k[2] = lod
                      /\ AbsDiff(k[3], center_tile) >= keep_radius})

\* TileCache::evict_far_from
evict_far_from(c, file_idx, lod, center_tile, keep_radius) ==
    RemoveKeys(c, {k \in DOMAIN c.tiles :
                      /\ k[1] = file_idx
                      /\ k[2] = lod
                      /\ AbsDiff(k[3], center_tile) > keep_radius})

\* TileCache::clear_for_file
clear_for_file(c, file_idx) ==
    RemoveKeys(c, {k \in DOMAIN c.tiles : KeyFile(k) = file_idx})

\* TileCache::clear_all
clear_all(c) == EmptyCache

---------------------------------------------------------------------------
(* Public API of the four caches *)

\* Option<T>: None is the empty set, Some(x) is {x}
None == {}
Some(x) == {x}

\* The history of the chroma renderings since the last clear of the chroma
\* cache, kept by the behaviours that start with it
ChromaLogStart == <<[op |-> "chroma_log"]>>
ChromaLogging == oplog # << >> /\ oplog[1].op = "chroma_log"

\* The history records the last operation that wrote a cache, returned
\* early or ended a task, and the cache it worked on.
Did(op, mode) == [op |-> op, mode |-> mode]

\* Any other step: a host event, a spawn, a task that yields again
Other == [op |-> "other", mode |-> "none"]

\* get_tile / get_flow_tile / get_reassign_tile / get_chroma_tile:
\* c.borrow().get(..).map(|_| ()), a shared borrow that writes nothing.
get_tile(m, key) == UNCHANGED vars

\* borrow_tile that requests the tile it misses
borrow_tile_Requests(m, key) ==
    IF key \in Resident(cache[m])
    THEN /\ cache' = [cache EXCEPT ![m] = Touch(@, key)]
         /\ lastOp' = Did("borrow", m)
         /\ UNCHANGED <<envVars, inflight, taskVars, tile_ready_signal>>
    ELSE /\ inflight' = [inflight EXCEPT ![m] = @ \cup {key}]
         /\ lastOp' = Did("borrow", m)
         /\ UNCHANGED <<envVars, cache, taskVars, tile_ready_signal>>

\* borrow_tile / borrow_flow_tile / borrow_reassign_tile / borrow_chroma_tile
borrow_tile(m, key) ==
    IF key \in Resident(cache[m])
    THEN /\ cache' = [cache EXCEPT ![m] = Touch(@, key)]
         /\ lastOp' = Did("borrow", m)
         /\ UNCHANGED <<envVars, inflight, taskVars, tile_ready_signal>>
    ELSE UNCHANGED vars

\* clear_file that leaves the in-flight set alone
clear_file_KeepInFlight(m, file_idx) ==
    /\ m # "chroma"
    /\ IF \E k \in Resident(cache[m]) \cup inflight[m] : KeyFile(k) = file_idx
       THEN /\ cache' = [cache EXCEPT ![m] = clear_for_file(@, file_idx)]
            /\ lastOp' = Did("clear_file", m)
            /\ UNCHANGED <<envVars, inflight, taskVars, tile_ready_signal>>
       ELSE UNCHANGED vars

\* clear_file / clear_flow_file / clear_reassign_file (the chroma cache has
\* no per-file clear)
clear_file(m, file_idx) ==
    /\ m # "chroma"
    /\ IF \E k \in Resident(cache[m]) \cup inflight[m] : KeyFile(k) = file_idx
       THEN /\ cache' = [cache EXCEPT ![m] = clear_for_file(@, file_idx)]
            /\ inflight' = [inflight EXCEPT ![m] = {k \in @ : KeyFile(k) # file_idx}]
            /\ lastOp' = Did("clear_file", m)
            /\ UNCHANGED <<envVars, taskVars, tile_ready_signal>>
       ELSE UNCHANGED vars

\* clear_all_tiles / clear_flow_cache / clear_reassign_cache / clear_chroma_cache
clear_all_tiles(m) ==
    IF \/ cache[m] # EmptyCache
       \/ inflight[m] # {}
       \/ (m = "chroma" /\ DOMAIN chroma_global_max # {})
    THEN /\ cache' = [cache EXCEPT ![m] = clear_all(@)]
         /\ inflight' = [inflight EXCEPT ![m] = {}]
         /\ chroma_global_max' = IF m = "chroma" THEN << >> ELSE chroma_global_max
         /\ oplog' = IF m = "chroma" /\ ChromaLogging THEN ChromaLogStart ELSE oplog
         /\ lastOp' = Did("clear_all", m)
         /\ UNCHANGED <<files, current_file_index, spect_fft_mode, keep_orig,
                        taskVars, tile_ready_signal>>
    ELSE UNCHANGED vars

\* evict_far (magnitude cache only)
evict_far(file_idx, lod, center_tile, keep_radius) ==
    /\ cache' = [cache EXCEPT !["mag"] =
                    evict_far_from(@, file_idx, lod, center_tile, keep_radius)]
    /\ lastOp' = IF evict_far_from(cache["mag"], file_idx, lod, center_tile,
                                   keep_radius) = cache["mag"]
                 THEN lastOp
                 ELSE Did("evict_far", "mag")
    /\ UNCHANGED <<envVars, inflight, taskVars, tile_ready_signal>>

---------------------------------------------------------------------------
(* The host: loaded files, focused file, FFT selection *)

\* The files the host can load.  columns is spectrogram.columns.len(), the
\* LOD-1 column count of the file's audio.
FileA == [name |-> "a", samples |-> 10240, columns |-> 17]
FileB == [name |-> "b", samples |-> 4096, columns |-> 5]
FileUniverse == {FileA, FileB}

\* The single-FFT sizes the user chooses from.
FftSizes == {2048, 8192}

FileIdxs == 0..1

\* files.get(file_idx)
HasFile(file_idx) == file_idx < Len(files)
FileAt(file_idx) == files[file_idx + 1]

\* files.get(file_idx).map(|f| f.audio.samples.len()).unwrap_or(0)
SamplesAt(file_idx) == IF HasFile(file_idx) THEN FileAt(file_idx).samples ELSE 0

\* state.current_file_index.get_untracked() == Some(file_idx)
IsCurrent(file_idx) == current_file_index = Some(file_idx)

\* The redraw counter is an unsigned 32-bit integer, kept here as the pair
\* <<high half, low half>> of 16-bit halves (its value is hi * 65536 + lo).
\* n.wrapping_add(1):
WrappingInc(n) ==
    IF n[2] < 65535 THEN <<n[1], n[2] + 1>>
    ELSE <<(n[1] + 1) % 65536, 0>>

\* A file is appended and focused (microphone.rs pushes the recording and
\* selects it; a file load does the same).  The host opens FileA into an
\* empty list and FileB next to another file.
LoadFile(f) ==
    /\ \A i \in 1..Len(files) : files[i] # f
    /\ f = IF files = << >> THEN FileA ELSE FileB
    /\ files' = Append(files, f)
    /\ current_file_index' = Some(Len(files))
    /\ lastOp' = Other
    /\ UNCHANGED <<spect_fft_mode, keep_orig, chroma_global_max, oplog, storeVars, taskVars,
                   tile_ready_signal>>

\* The host closes the file at index i: Vec::remove, later files shift down.
CloseFile(i) ==
    /\ HasFile(i)
    /\ files' = [j \in 1..(Len(files) - 1) |-> IF j <= i THEN files[j] ELSE files[j + 1]]
    /\ current_file_index' = IF Len(files) = 1 THEN None ELSE Some(0)
    /\ lastOp' = Other
    /\ UNCHANGED <<spect_fft_mode, keep_orig, chroma_global_max, oplog, storeVars, taskVars,
                   tile_ready_signal>>

\* The user focuses another loaded file.
SelectFile(i) ==
    /\ HasFile(i)
    /\ current_file_index # Some(i)
    /\ current_file_index' = Some(i)
    /\ lastOp' = Other
    /\ UNCHANGED <<files, spect_fft_mode, keep_orig, chroma_global_max, oplog, storeVars, taskVars,
                   tile_ready_signal>>

---------------------------------------------------------------------------
(* The Analysis Backend and the renderer, as far as the cache sees them *)

\* compute_spectrogram_partial: the number of columns it returns
compute_spectrogram_partial(samples, fft_size, hop_size, col_start, col_count) ==
    IF samples < fft_size \/ col_count = 0 THEN 0
    ELSE LET total_cols == (samples - fft_size) \div hop_size + 1
             col_end    == Min(col_start + col_count, total_cols)
         IN  Cardinality({c \in col_start..(col_end - 1) :
                              c * hop_size + fft_size <= samples})

\* compute_reassigned_tile: the width of the PreRendered it returns
compute_reassigned_tile(slice_len, col_count, fft_size) ==
    IF slice_len < fft_size \/ col_count = 0 THEN 0 ELSE col_count

\* harmonics::compute_tile_phase_data / compute_tile_phase_angle_data: the
\* width of the PreRendered, a full grid like the reassignment tile's
compute_tile_phase_data(slice_len, col_count, fft_size) ==
    IF slice_len < fft_size \/ col_count = 0 THEN 0 ELSE col_count

\* PreRendered::byte_len of a dB grid: width * (fft/2 + 1) bins * 4 bytes
ByteLen(width, fft_size) == width * (fft_size \div 2 + 1) * 4

\* pre_render_columns and the other renderers: one tile column per input column
Rendered(width, fft_size) == [bytes |-> ByteLen(width, fft_size), width |-> width]

---------------------------------------------------------------------------
(* Scheduling: the synchronous part of the schedule_* functions *)

\* At most MaxLive futures are pending at a time, all of them spawned by the
\* same entry point, and no future is spawned unless the redraw counter can
\* still be raised below MaxRedraws.
MaxLive == 2
MaxRedraws == 2

\* How many more times the redraw counter n may be raised: up to MaxRedraws
\* for a counter in the low half-range, and for one near the type's maximum
\* the raises up to the wrap as well.
RaisesLeft(n) ==
    IF n[1] = 0
    THEN (IF n[2] < MaxRedraws THEN MaxRedraws - n[2] ELSE 0)
    ELSE MaxRedraws + (65536 - n[2])

Live == BagToSet(tasks)

\* The driver requests tiles of one analysis mode at a time: the modes
\* share no cache and no in-flight set.
Busy(m) ==
    \/ cache[m] # EmptyCache
    \/ inflight[m] # {}
    \/ \E t \in Live : t.mode = m
    \/ (m = "chroma" /\ DOMAIN chroma_global_max # {})
OneModeAtATime(m) == \A o \in Modes \ {m} : ~Busy(o)

NoFile == [name |-> "", samples |-> 0, columns |-> 0]

\* A spawned future, suspended at its first yield_to_browser().await.
\*   fft:  fft_mode / actual_fft captured by the closure
\*   file: the LoadedFile moved into the schedule_tile closure
\*   read: samples.len() of the audio clone a flow or reassignment task
\*         holds across its last yield
\*   orig: history, the name of the file loaded at file_idx when the task
\*         was scheduled ("" when there was none or nothing is recorded)
NewTask(kind, m, key, fft, algo, file) ==
    [kind |-> kind, mode |-> m, key |-> key,
     pc |-> "first", left |-> 0, fft |-> fft, algo |-> algo, file |-> file,
     read |-> 0,
     orig |-> IF keep_orig /\ HasFile(KeyFile(key))
              THEN FileAt(KeyFile(key)).name ELSE ""]

\* IN_FLIGHT.insert(key); spawn_local(async move { ... })
Spawn(kind, m, key, fft, algo, file) ==
    /\ BagCardinality(tasks) < MaxLive
    /\ \A t \in Live : t.kind = kind
    /\ BagCardinality(tasks) < RaisesLeft(tile_ready_signal)
    /\ inflight' = [inflight EXCEPT ![m] = @ \cup {key}]
    /\ tasks' = tasks (+) SetToBag({NewTask(kind, m, key, fft, algo, file)})
    /\ lastOp' = Other
    /\ UNCHANGED <<envVars, cache, tile_ready_signal>>

\* An early return of a schedule_* function: "known" when the key is
\* resident or in flight, "bounds" when the tile lies past the end
Return(why, m, key) ==
    /\ lastOp' = Did(why, m)
    /\ UNCHANGED <<envVars, storeVars, taskVars, tile_ready_signal>>

\* The first two checks of every schedule_* function
Known(m, key) == key \in Resident(cache[m]) \/ key \in inflight[m]

\* tile_idx >= tile_count_for_samples(total_samples, lod), where
\* total_samples is 0 when no file is loaded at file_idx
PastEnd(file_idx, lod, tile_idx) ==
    tile_idx >= tile_count_for_samples(SamplesAt(file_idx), lod)

\* schedule_tile_lod without its in-flight check
schedule_tile_lod_NoInFlight(file_idx, lod, tile_idx) ==
    LET key == <<file_idx, lod, tile_idx>>
    IN  IF key \in Resident(cache["mag"]) THEN Return("known", "mag", key)
        ELSE IF PastEnd(file_idx, lod, tile_idx) THEN Return("bounds", "mag", key)
        ELSE Spawn("lod", "mag", key, spect_fft_mode, "", NoFile)

\* schedule_tile_lod
schedule_tile_lod(file_idx, lod, tile_idx) ==
    LET key == <<file_idx, lod, tile_idx>>
    IN  IF Known("mag", key) THEN Return("known", "mag", key)
        ELSE IF PastEnd(file_idx, lod, tile_idx) THEN Return("bounds", "mag", key)
        ELSE Spawn("lod", "mag", key, spect_fft_mode, "", NoFile)

\* schedule_tile(state, file, file_idx, tile_idx); the caller passes the
\* LoadedFile it has just stored at file_idx.
schedule_tile(file_idx, tile_idx) ==
    LET key == <<file_idx, 1, tile_idx>>
    IN  /\ HasFile(file_idx)
        /\ IF Known("mag", key) THEN Return("known", "mag", key)
           ELSE Spawn("tile", "mag", key, 2048, "", FileAt(file_idx))

\* schedule_tile_from_store
schedule_tile_from_store(file_idx, tile_idx) ==
    LET key == <<file_idx, 1, tile_idx>>
    IN  IF Known("mag", key) THEN Return("known", "mag", key)
        ELSE Spawn("from_store", "mag", key, 2048, "", NoFile)

\* schedule_tile_on_demand
schedule_tile_on_demand(file_idx, tile_idx) ==
    LET key == <<file_idx, 1, tile_idx>>
    IN  IF Known("mag", key) THEN Return("known", "mag", key)
        ELSE Spawn("on_demand", "mag", key, 2048, "", NoFile)

\* schedule_flow_tile without its bounds check
schedule_flow_tile_NoBounds(file_idx, lod, tile_idx, algo) ==
    LET key == <<file_idx, lod, tile_idx>>
    IN  IF Known("flow", key) THEN Return("known", "flow", key)
        ELSE Spawn("flow", "flow", key, Max(spect_fft_mode, HopOf(lod)), algo, NoFile)

\* schedule_flow_tile; actual_fft = user_fft.max(config_hop) is captured
schedule_flow_tile(file_idx, lod, tile_idx, algo) ==
    LET key == <<file_idx, lod, tile_idx>>
    IN  IF Known("flow", key) THEN Return("known", "flow", key)
        ELSE IF PastEnd(file_idx, lod, tile_idx) THEN Return("bounds", "flow", key)
        ELSE Spawn("flow", "flow", key, Max(spect_fft_mode, HopOf(lod)), algo, NoFile)

\* schedule_reassign_tile
schedule_reassign_tile(file_idx, lod, tile_idx) ==
    LET key == <<file_idx, lod, tile_idx>>
    IN  IF Known("reassign", key) THEN Return("known", "reassign", key)
        ELSE IF PastEnd(file_idx, lod, tile_idx)
        THEN Return("bounds", "reassign", key)
        ELSE Spawn("reassign", "reassign", key,
                   Max(spect_fft_mode, HopOf(lod)), "", NoFile)

\* schedule_chroma_tile that looks at the in-flight set only
schedule_chroma_tile_NoResident(file_idx, tile_idx) ==
    LET key == <<file_idx, tile_idx>>
    IN  IF key \in inflight["chroma"] THEN Return("known", "chroma", key)
        ELSE Spawn("chroma", "chroma", key, 2048, "", NoFile)

\* schedule_chroma_tile
schedule_chroma_tile(file_idx, tile_idx) ==
    LET key == <<file_idx, tile_idx>>
    IN  IF Known("chroma", key) THEN Return("known", "chroma", key)
        ELSE Spawn("chroma", "chroma", key, 2048, "", NoFile)

---------------------------------------------------------------------------
(* The spectral column store, seen from the cache *)

\* spectral_store::with_columns(file_idx, col_start, col_end, f): None when
\* the store does not hold the range, else f applied to the columns.  The
\* store's contents are not part of this model: either outcome is possible.
\* The value is the set of outcomes: None, or Some(number of columns).
with_columns(file_idx, col_start, col_end) == {None, Some(col_end - col_start)}

\* The x of Some(x)
Unwrap(o) == CHOOSE x \in o : TRUE

\* render_tile_from_store_sync
render_tile_from_store_sync(file_idx, tile_idx) ==
    LET key == <<file_idx, 1, tile_idx>>
    IN  IF key \in Resident(cache["mag"])
        THEN UNCHANGED vars
        ELSE \E r \in with_columns(file_idx, tile_idx * TILE_COLS,
                                   tile_idx * TILE_COLS + TILE_COLS) :
                IF r = None THEN UNCHANGED vars
                ELSE /\ cache' = [cache EXCEPT !["mag"] =
                                     Insert(@, key, Rendered(Unwrap(r), 2048))]
                     /\ lastOp' = Did("render_tile_from_store_sync", "mag")
                     /\ UNCHANGED <<envVars, inflight, taskVars, tile_ready_signal>>

\* The widths of the live tiles the recorder asks for.
LiveCols == {100, 256}

\* render_live_tile_sync: a partial tile is padded to TILE_COLS columns
render_live_tile_sync(file_idx, tile_idx, col_start, available_cols) ==
    LET key == <<file_idx, 1, tile_idx>>
    IN  \E r \in with_columns(file_idx, col_start, col_start + available_cols) :
            IF r = None THEN UNCHANGED vars
            ELSE /\ cache' = [cache EXCEPT !["mag"] =
                                 Insert(@, key,
                                     Rendered(IF Unwrap(r) = 0 \/ available_cols >= TILE_COLS
                                              THEN Unwrap(r) ELSE TILE_COLS, 2048))]
                 /\ lastOp' = Did("render_live_tile_sync", "mag")
                 /\ UNCHANGED <<envVars, inflight, taskVars, tile_ready_signal>>

---------------------------------------------------------------------------
(* The tile tasks: one step runs a future from one yield to the next *)

HasLodYield(t)   == t.kind \in {"lod", "flow", "reassign"} /\ t.key[2] >= 2
HasExtraYield(t) == t.kind = "reassign"

\* is_current check and the three extra yields of a background file
BgOrBody(t) == IF IsCurrent(KeyFile(t.key)) THEN <<"body", 0>> ELSE <<"bg", 3>>

\* NextYield without the extra yield of the expensive LODs
NextYield_NoLodYield(t) ==
    CASE t.pc = "first" ->
            IF HasExtraYield(t) THEN <<"extra", 0>> ELSE BgOrBody(t)
      [] t.pc = "lod" ->
            IF HasExtraYield(t) THEN <<"extra", 0>> ELSE BgOrBody(t)
      [] t.pc = "extra" -> BgOrBody(t)
      [] t.pc = "bg" ->
            IF t.left > 1 THEN <<"bg", t.left - 1>> ELSE <<"body", 0>>
      [] OTHER -> <<"body", 0>>

\* Where the future suspends next when it is resumed at t.pc: the next
\* yield point and the yields left in the background loop, or "body" when
\* it runs on into the computation.
NextYield(t) ==
    CASE t.pc = "first" ->
            IF HasLodYield(t) THEN <<"lod", 0>>
            ELSE IF HasExtraYield(t) THEN <<"extra", 0>>
            ELSE BgOrBody(t)
      [] t.pc = "lod" ->
            IF HasExtraYield(t) THEN <<"extra", 0>> ELSE BgOrBody(t)
      [] t.pc = "extra" -> BgOrBody(t)
      [] t.pc = "bg" ->
            IF t.left > 1 THEN <<"bg", t.left - 1>> ELSE <<"body", 0>>
      [] OTHER -> <<"body", 0>>

\* The future suspends at another yield_to_browser().await
Yield(t, pc, left, read) ==
    /\ tasks' = (tasks (-) SetToBag({t}))
                    (+) SetToBag({[t EXCEPT !.pc = pc, !.left = left, !.read = read]})
    /\ lastOp' = Other
    /\ UNCHANGED <<envVars, storeVars, tile_ready_signal>>

\* A task that returns without releasing its in-flight entry
Abandon_KeepInFlight(t) ==
    /\ tasks' = tasks (-) SetToBag({t})
    /\ lastOp' = Did("task_abandon", t.mode)
    /\ UNCHANGED <<envVars, storeVars, tile_ready_signal>>

\* IN_FLIGHT.remove(&key); return  -- the file is gone
Abandon(t) ==
    /\ inflight' = [inflight EXCEPT ![t.mode] = @ \ {t.key}]
    /\ tasks' = tasks (-) SetToBag({t})
    /\ lastOp' = Did("task_abandon", t.mode)
    /\ UNCHANGED <<envVars, cache, tile_ready_signal>>

\* A task that finds nothing to render and keeps its in-flight entry
NoData_KeepInFlight(t, bump) ==
    /\ tasks' = tasks (-) SetToBag({t})
    /\ tile_ready_signal' = IF bump THEN WrappingInc(tile_ready_signal)
                            ELSE tile_ready_signal
    /\ lastOp' = Did(IF bump THEN "task_nodata_redraw" ELSE "task_nodata", t.mode)
    /\ UNCHANGED <<envVars, storeVars>>

\* IN_FLIGHT.remove(&key); return  -- nothing to render; schedule_tile_lod
\* still raises the redraw counter
NoData(t, bump) ==
    /\ inflight' = [inflight EXCEPT ![t.mode] = @ \ {t.key}]
    /\ tasks' = tasks (-) SetToBag({t})
    /\ tile_ready_signal' = IF bump THEN WrappingInc(tile_ready_signal)
                            ELSE tile_ready_signal
    /\ lastOp' = Did(IF bump THEN "task_nodata_redraw" ELSE "task_nodata", t.mode)
    /\ UNCHANGED <<envVars, cache>>

\* cache.insert(..); IN_FLIGHT.remove(&key); tile_ready_signal += 1 (in
\* schedule_tile_lod and schedule_tile_from_store the removal comes first;
\* no yield separates the three)
Complete(t, tile) ==
    /\ cache' = [cache EXCEPT ![t.mode] = Insert(@, t.key, tile)]
    /\ inflight' = [inflight EXCEPT ![t.mode] = @ \ {t.key}]
    /\ tasks' = tasks (-) SetToBag({t})
    /\ tile_ready_signal' = WrappingInc(tile_ready_signal)
    /\ lastOp' = Did("task_insert", t.mode)
    /\ UNCHANGED envVars

ColStart(t) == KeyTile(t.key) * TILE_COLS

\* The columns the backend returns to a schedule_tile_lod task that reads
\* the audio now
LodCols(t) ==
    LET hop == HopOf(t.key[2])
    IN  compute_spectrogram_partial(SamplesAt(KeyFile(t.key)), Max(t.fft, hop), hop,
                                    ColStart(t), TILE_COLS)

\* schedule_tile_lod, from the audio read to the end
BodyLod(t) ==
    IF ~HasFile(KeyFile(t.key)) THEN Abandon(t)
    ELSE IF LodCols(t) = 0 THEN NoData(t, TRUE)
    ELSE Complete(t, Rendered(LodCols(t), Max(t.fft, HopOf(t.key[2]))))

\* schedule_tile, from the still_loaded check to the end
BodyTile(t) ==
    LET f       == KeyFile(t.key)
        col_end == Min(ColStart(t) + TILE_COLS, t.file.columns)
    IN  IF ~(HasFile(f) /\ FileAt(f).name = t.file.name) THEN Abandon(t)
        ELSE IF ColStart(t) >= col_end THEN NoData(t, FALSE)
        ELSE Complete(t, Rendered(col_end - ColStart(t), 2048))

\* schedule_tile_from_store, from the still_loaded check to the end
BodyFromStore(t) ==
    IF ~HasFile(KeyFile(t.key)) THEN Abandon(t)
    ELSE \E r \in with_columns(KeyFile(t.key), ColStart(t), ColStart(t) + TILE_COLS) :
            IF r = None THEN NoData(t, FALSE)
            ELSE Complete(t, Rendered(Unwrap(r), 2048))

\* schedule_tile_on_demand, from the audio read to the end
BodyOnDemand(t) ==
    LET n == compute_spectrogram_partial(SamplesAt(KeyFile(t.key)), 2048, 512,
                                         ColStart(t), TILE_COLS)
    IN  IF ~HasFile(KeyFile(t.key)) THEN Abandon(t)
        ELSE IF n = 0 THEN NoData(t, FALSE)
        ELSE Complete(t, Rendered(n, 2048))

\* The sample slice a phase or reassignment task cuts out of the audio:
\* its length, or 0 when the task gives up (sample_start >= len or
\* sample_start >= sample_end)
SliceLen(t, extra) ==
    LET len          == SamplesAt(KeyFile(t.key))
        sample_start == ColStart(t) * HopOf(t.key[2])
        sample_end   == Min(sample_start + extra * HopOf(t.key[2]) + t.fft, len)
    IN  IF sample_start >= len \/ sample_start >= sample_end THEN 0
        ELSE sample_end - sample_start

\* schedule_flow_tile, from the audio read to the yield before the
\* computation; the task keeps its clone of the audio across the yield
BodyFlow(t) ==
    IF ~HasFile(KeyFile(t.key)) THEN Abandon(t)
    ELSE IF t.algo = "Phase"
         THEN IF SliceLen(t, TILE_COLS) = 0 THEN NoData(t, FALSE)
              ELSE Yield(t, "compute", 0, SliceLen(t, TILE_COLS))
         ELSE Yield(t, "compute", 0, SamplesAt(KeyFile(t.key)))

\* schedule_flow_tile after its last yield
ComputeFlow(t) ==
    IF t.algo = "Phase"
    THEN Complete(t, Rendered(compute_tile_phase_data(t.read, TILE_COLS, t.fft), t.fft))
    ELSE LET n == compute_spectrogram_partial(t.read, t.fft, HopOf(t.key[2]),
                                              ColStart(t), TILE_COLS)
         IN  IF n = 0 THEN NoData(t, FALSE)
             ELSE Complete(t, Rendered(n, t.fft))

\* schedule_reassign_tile, from the audio read to the yield before the
\* computation
BodyReassign(t) ==
    IF ~HasFile(KeyFile(t.key)) THEN Abandon(t)
    ELSE IF SliceLen(t, TILE_COLS) = 0 THEN NoData(t, FALSE)
    ELSE Yield(t, "compute", 0, SliceLen(t, TILE_COLS))

\* schedule_reassign_tile after its last yield
ComputeReassign(t) ==
    Complete(t, Rendered(compute_reassigned_tile(t.read, TILE_COLS, t.fft), t.fft))

\* spectral_store::compute_chroma_global_max, or chromagram::compute_chroma_max
\* over the file's columns, or (0.0, 0.0) for a file without columns: the
\* file-wide (max_class, max_note) of the file's audio, 0 for digital
\* silence.  The values stand for f32 magnitudes.
compute_chroma_global_max(file) ==
    IF file.columns = 0 \/ file.name = "quiet" THEN <<0, 0>>
    ELSE IF file.name = "a" THEN <<2, 1>>
    ELSE <<3, 2>>

\* The end of a schedule_chroma_tile task that used the pair gm, computed
\* by this task when fresh: the memo is written if gm.0 > 0.0; the tile is
\* inserted and the counter raised when there was something to render.
ChromaEnd(t, rendered, tile, gm, fresh) ==
    LET f == KeyFile(t.key)
    IN  /\ chroma_global_max' =
              IF fresh /\ gm[1] > 0
              THEN [x \in (DOMAIN chroma_global_max) \cup {f} |->
                        IF x = f THEN gm ELSE chroma_global_max[x]]
              ELSE chroma_global_max
        /\ cache' = IF rendered
                    THEN [cache EXCEPT !["chroma"] = Insert(@, t.key, tile)]
                    ELSE cache
        /\ inflight' = [inflight EXCEPT !["chroma"] = @ \ {t.key}]
        /\ tasks' = tasks (-) SetToBag({t})
        /\ tile_ready_signal' = IF rendered THEN WrappingInc(tile_ready_signal)
                                ELSE tile_ready_signal
        /\ lastOp' = Did(IF rendered THEN "task_insert" ELSE "task_nodata", "chroma")
        /\ oplog' = IF ChromaLogging
                    THEN Append(oplog, [op |-> "chroma_tile", file |-> FileAt(f).name,
                                        pair |-> gm, computed |-> fresh,
                                        rendered |-> rendered])
                    ELSE oplog
        /\ UNCHANGED <<files, current_file_index, spect_fft_mode, keep_orig>>

\* schedule_chroma_tile, from the still_loaded check to the end
BodyChroma(t) ==
    LET f     == KeyFile(t.key)
        end   == Min(ColStart(t) + TILE_COLS, FileAt(f).columns)
        fresh == f \notin DOMAIN chroma_global_max
        gm    == IF fresh THEN compute_chroma_global_max(FileAt(f))
                 ELSE chroma_global_max[f]
    IN  IF ~HasFile(f) THEN Abandon(t)
        ELSE \E r \in with_columns(f, ColStart(t), ColStart(t) + TILE_COLS) :
                IF r # None
                THEN ChromaEnd(t, TRUE, Rendered(Unwrap(r), 2048), gm, fresh)
                ELSE IF FileAt(f).columns = 0 \/ ColStart(t) >= end
                     THEN ChromaEnd(t, FALSE, Rendered(0, 2048), gm, fresh)
                     ELSE ChromaEnd(t, TRUE, Rendered(end - ColStart(t), 2048),
                                    gm, fresh)

Body(t) ==
    CASE t.kind = "lod"        -> BodyLod(t)
      [] t.kind = "tile"       -> BodyTile(t)
      [] t.kind = "from_store" -> BodyFromStore(t)
      [] t.kind = "on_demand"  -> BodyOnDemand(t)
      [] t.kind = "flow"       -> BodyFlow(t)
      [] t.kind = "reassign"   -> BodyReassign(t)
      [] t.kind = "chroma"     -> BodyChroma(t)

\* The event loop resumes task t
TaskStep(t) ==
    IF t.pc = "compute"
    THEN IF t.kind = "flow" THEN ComputeFlow(t) ELSE ComputeReassign(t)
    ELSE IF NextYield(t)[1] # "body"
         THEN Yield(t, NextYield(t)[1], NextYield(t)[2], 0)
         ELSE Body(t)

---------------------------------------------------------------------------
(* Spec: the scheduler, its tasks and the host around them *)

\* The tiles the driver asks for.  With FileA loaded at file_idx,
\* <<file_idx, 3, 1>> is the second and last LOD-3 tile and <<file_idx, 1, 1>>
\* lies past the end; with FileB every tile index above 0 lies past the end.
LodKeys   == {<<0, 1, 0>>, <<0, 3, 1>>}
Lod1Keys  == {<<0, 0>>, <<0, 1>>}
SyncKeys  == {<<0, 0>>}
FlowAlgos == {"Optical", "Phase"}

\* No file is loaded, the caches are empty, the FFT selection is fft
InitWith(fft, orig) ==
    /\ files = << >>
    /\ current_file_index = None
    /\ spect_fft_mode = fft
    /\ cache = [m \in Modes |-> EmptyCache]
    /\ inflight = [m \in Modes |-> {}]
    /\ tasks = EmptyBag
    /\ tile_ready_signal = <<0, 0>>
    /\ lastOp = Other
    /\ keep_orig = orig
    /\ chroma_global_max = << >>
    /\ oplog = << >>

\* The default FFT selection is 2048
Init == InitWith(2048, FALSE)

Schedule ==
    \/ \E k \in LodKeys :
          OneModeAtATime("mag") /\ schedule_tile_lod(k[1], k[2], k[3])
    \/ \E k \in Lod1Keys :
          OneModeAtATime("mag") /\ schedule_tile(k[1], k[2])
    \/ \E k \in Lod1Keys :
          OneModeAtATime("mag") /\ schedule_tile_from_store(k[1], k[2])
    \/ \E k \in Lod1Keys :
          OneModeAtATime("mag") /\ schedule_tile_on_demand(k[1], k[2])
    \/ \E k \in LodKeys, algo \in FlowAlgos :
          OneModeAtATime("flow") /\ schedule_flow_tile(k[1], k[2], k[3], algo)
    \/ \E k \in LodKeys :
          OneModeAtATime("reassign") /\ schedule_reassign_tile(k[1], k[2], k[3])
    \/ \E k \in Lod1Keys :
          OneModeAtATime("chroma") /\ schedule_chroma_tile(k[1], k[2])

RenderSync ==
    \/ \E k \in SyncKeys :
          OneModeAtATime("mag") /\ render_tile_from_store_sync(k[1], k[2])
    \/ \E k \in SyncKeys, n \in LiveCols :
          OneModeAtATime("mag") /\ render_live_tile_sync(k[1], k[2], k[2] * TILE_COLS, n)

Clear ==
    \/ \E m \in Modes, f \in FileIdxs : clear_file(m, f)
    \/ \E m \in Modes : clear_all_tiles(m)

Host ==
    \/ \E f \in FileUniverse : LoadFile(f)
    \/ \E i \in FileIdxs : CloseFile(i)

Run == \E t \in Live : TaskStep(t)

Next == Schedule \/ Clear \/ Host \/ Run

Spec == Init /\ [][Next]_vars

\* SpecSync: the same system with the renderer's synchronous inserters and
\* the user's change of focus beside the scheduler, for either FFT
\* selection.
Focus == \E i \in FileIdxs : SelectFile(i)

InitSync == \E fft \in FftSizes : InitWith(fft, FALSE)

NextSync == Next \/ RenderSync \/ Focus

SpecSync == InitSync /\ [][NextSync]_vars

\* SpecOrig: Spec with every task recording the file it was scheduled for.
InitOrig == InitWith(2048, TRUE)

SpecOrig == InitOrig /\ [][Next]_vars

\* The keys of a mode that the driver can put in flight
SchedKeys(m) ==
    CASE m = "mag"    -> LodKeys \cup {<<k[1], 1, k[2]>> : k \in Lod1Keys}
      [] m = "chroma" -> Lod1Keys
      [] OTHER        -> LodKeys

\* The event loop is a FIFO of macrotasks: a future that can be resumed is
\* resumed, so the pending tasks of every key keep taking steps.
Fairness ==
    \A m \in Modes : \A k \in SchedKeys(m) :
        WF_vars(\E t \in Live : t.mode = m /\ t.key = k /\ TaskStep(t))

SpecFair == Spec /\ Fairness

---------------------------------------------------------------------------
(* SpecCache: one tile store driven directly through its operations.  The  *)
(* four instances share no state, so the driver works on one instance at   *)
(* a time (the others are empty); tile sizes are fractions of MAX_BYTES so *)
(* that a handful of tiles fills the budget.                               *)

MaxTileIdx == 1

StoreKeys(m) ==
    IF m = "chroma"
    THEN {<<0, t>> : t \in 0..MaxTileIdx} \cup {<<1, 0>>}
    ELSE {<<0, 1, t>> : t \in 0..MaxTileIdx} \cup {<<1, 1, 0>>, <<0, 2, 0>>}

\* byte_len of the tiles the driver inserts: empty, 2/5 of the budget (two
\* fit, a third evicts) and one byte over the budget.
StoreSizes == {0, (2 * MAX_BYTES) \div 5, MAX_BYTES + 1}

StoreTiles == {[bytes |-> b, width |-> IF b = 0 THEN 0 ELSE TILE_COLS] : b \in StoreSizes}

\* A direct call of TileCache::insert / ChromaTileCache::insert
StoreInsert(m, key, tile) ==
    /\ cache' = [cache EXCEPT ![m] = Insert(@, key, tile)]
    /\ lastOp' = Did("insert", m)
    /\ UNCHANGED <<envVars, inflight, taskVars, tile_ready_signal>>

Quiet(m) == \A o \in Modes \ {m} : cache[o] = EmptyCache

InitCache == InitWith(2048, FALSE)

NextCache ==
    \E m \in Modes :
        /\ Quiet(m)
        /\ \/ \E key \in StoreKeys(m), tile \in StoreTiles : StoreInsert(m, key, tile)
           \/ \E key \in StoreKeys(m) : get_tile(m, key)
           \/ \E key \in StoreKeys(m) : borrow_tile(m, key)
           \/ \E f \in 0..1 : clear_file(m, f)
           \/ clear_all_tiles(m)
           \/ /\ m = "mag"
              /\ \E f \in 0..1, lod \in 1..2, c \in 0..MaxTileIdx, r \in 0..1 :
                    evict_far(f, lod, c, r)

SpecCache == InitCache /\ [][NextCache]_vars

---------------------------------------------------------------------------
(* Claims about the tile store *)

RECURSIVE SeqToSet(_)
SeqToSet(s) == IF s = << >> THEN {} ELSE {Head(s)} \cup SeqToSet(Tail(s))

NoDuplicates(s) == \A i, j \in 1..Len(s) : s[i] = s[j] => i = j

\* C1: in every cache instance total_bytes is the sum of byte_len over the
\* resident tiles, and lru lists every resident key exactly once and no
\* other key.
C1_CacheAccounting ==
    \A m \in Modes :
        /\ cache[m].total_bytes = SumBytes(cache[m].tiles, Resident(cache[m]))
        /\ NoDuplicates(cache[m].lru)
        /\ SeqToSet(cache[m].lru) = Resident(cache[m])

\* C1 witness: a store that has gone through a replacing insert and an
\* eviction still holds two tiles.
C1_Witness ==
    \E m \in Modes :
        /\ Len(cache[m].lru) >= 2
        /\ cache[m].total_bytes > MAX_BYTES \div 2
        /\ cache[m].total_bytes <= MAX_BYTES
        /\ lastOp.op \in {"borrow", "evict_far", "clear_file"}

\* C2: after an insert the store holds at most MAX_BYTES, whatever the size
\* of the oplog tile.
C2_InsertWithinCap ==
    \A m \in Modes : (lastOp.op = "insert" /\ lastOp.mode = m)
                        => cache[m].total_bytes <= MAX_BYTES

---------------------------------------------------------------------------
(* Claims about scheduling and the tile tasks *)

\* The number of live tasks of mode m that compute key k
NumLive(m, k) ==
    BagCardinality([t \in {u \in Live : u.mode = m /\ u.key = k} |-> tasks[t]])

\* The tasks spawned by the step
Spawned == {t \in BagToSet(tasks') : t.pc = "first" /\ CopiesIn(t, tasks') > CopiesIn(t, tasks)}

\* The step ends task t
Ends(t) == tasks' = tasks (-) SetToBag({t})

\* The LOD of the tile a task computes (a chroma tile is a LOD-1 tile)
KeyLod(key) == IF Len(key) = 3 THEN key[2] ELSE 1

\* C3: at most one task is live for a key within one analysis mode, under
\* every interleaving of schedule calls, task steps and clears.
C3_OneLiveTaskPerKey ==
    \A m \in Modes : \A k \in SchedKeys(m) : NumLive(m, k) <= 1

C5_InFlightNotResident ==
    \A m \in Modes : inflight[m] \cap Resident(cache[m]) = {}

\* C6: a step that spawns a schedule_tile_lod, schedule_flow_tile or
\* schedule_reassign_tile task does so for a tile index below
\* tile_count_for_samples of the file at file_idx; a call for a tile past
\* the end leaves in-flight sets and tasks as they are.
C6_PastEndNeverLaunches ==
    [][/\ \A t \in Spawned :
              t.kind \in {"lod", "flow", "reassign"}
                  => ~PastEnd(KeyFile(t.key), KeyLod(t.key), KeyTile(t.key))
       /\ lastOp'.op = "bounds" => (inflight' = inflight /\ tasks' = tasks)]_vars

\* C6 witness: with a file loaded, a schedule_flow_tile or
\* schedule_reassign_tile call has returned at its bounds check.
C6_Witness ==
    /\ lastOp.op = "bounds"
    /\ lastOp.mode \in {"flow", "reassign"}
    /\ files # << >>

\* C7: a call of any scheduling entry point for a tile index past the end
\* of the data of the file loaded at file_idx is a no-op: it spawns no
\* task and leaves the in-flight sets, the caches and the redraw counter as
\* they are.
C7_PastEndIsNoOp ==
    [][\A t \in Spawned :
          (/\ HasFile(KeyFile(t.key))
           /\ PastEnd(KeyFile(t.key), KeyLod(t.key), KeyTile(t.key)))
              => /\ tasks' = tasks
                 /\ inflight' = inflight
                 /\ cache' = cache
                 /\ tile_ready_signal' = tile_ready_signal]_vars

\* The task is resumed for the last time and the Analysis Backend hands it
\* no columns.
GetsNoColumns(t) ==
    CASE t.kind = "lod" ->
            /\ NextYield(t)[1] = "body"
            /\ HasFile(KeyFile(t.key))
            /\ LodCols(t) = 0
      [] t.kind = "on_demand" ->
            /\ NextYield(t)[1] = "body"
            /\ HasFile(KeyFile(t.key))
            /\ compute_spectrogram_partial(SamplesAt(KeyFile(t.key)), 2048, 512,
                                           ColStart(t), TILE_COLS) = 0
      [] t.kind = "flow" ->
            /\ t.pc = "compute"
            /\ t.algo = "Optical"
            /\ compute_spectrogram_partial(t.read, t.fft, HopOf(t.key[2]),
                                           ColStart(t), TILE_COLS) = 0
      [] OTHER -> FALSE

C9_InFlightReleased ==
    \A m \in Modes : \A k \in SchedKeys(m) :
        (k \in inflight[m]) ~> (k \notin inflight[m])

\* C9 witness: a task found its file gone and released the last key in
\* flight.
C9_Witness ==
    /\ lastOp.op = "task_abandon"
    /\ lastOp.mode \in {"flow", "reassign"}
    /\ tasks = EmptyBag
    /\ \A m \in Modes : inflight[m] = {}

\* The file at the task's file_idx is no longer the one it was scheduled for
FileChanged(t) ==
    /\ t.orig # ""
    /\ \/ ~HasFile(KeyFile(t.key))
       \/ FileAt(KeyFile(t.key)).name # t.orig

\* C10: a task that reaches its re-check after the file at file_idx was
\* removed or replaced ends there without inserting a tile and with its
\* key out of the in-flight set.
C10_AbandonsOnFileChange ==
    [][\A t \in Live :
          (/\ t.pc # "compute"
           /\ NextYield(t)[1] = "body"
           /\ FileChanged(t)
           /\ CopiesIn(t, tasks') < CopiesIn(t, tasks))
              => /\ Ends(t)
                 /\ cache' = cache
                 /\ t.key \notin inflight'[t.mode]]_vars

---------------------------------------------------------------------------
(* Insertion sequences: eviction order *)

MaxInserts == 5

\* byte_len of the tiles of the sequence: empty, 3/10 of the budget (three
\* fit, a fourth evicts), 2/5 of it (two fit) and the whole budget.
EvictSizes == {0, (3 * MAX_BYTES) \div 10, (2 * MAX_BYTES) \div 5, MAX_BYTES}

\* The n-th insert (from 0) is for tile n of file 0 or of file 1 at LOD 1:
\* the keys of a sequence are distinct.
InsertKeys(n) == {<<f, 1, n>> : f \in 0..1}

Call(op, m, key, bytes) == [op |-> op, mode |-> m, key |-> key, bytes |-> bytes]

\* CACHE.with(|c| c.borrow_mut().insert(file_idx, lod, tile_idx, rendered))
SeqInsert(m, key, bytes) ==
    /\ cache' = [cache EXCEPT ![m] =
                    Insert(@, key, [bytes |-> bytes,
                                    width |-> IF bytes = 0 THEN 0 ELSE TILE_COLS])]
    /\ oplog' = Append(oplog, Call("insert", m, key, bytes))
    /\ lastOp' = Did("insert", m)
    /\ UNCHANGED <<files, current_file_index, spect_fft_mode, keep_orig, chroma_global_max, inflight,
                   taskVars, tile_ready_signal>>

NextInserts ==
    /\ Len(oplog) < MaxInserts
    /\ \E key \in InsertKeys(Len(oplog)), bytes \in EvictSizes :
           SeqInsert("mag", key, bytes)

SpecInserts == Init /\ [][NextInserts]_vars

RECURSIVE SumLog(_)
SumLog(s) == IF s = << >> THEN 0 ELSE Head(s).bytes + SumLog(Tail(s))

\* The last n calls of the log
Suffix(s, n) == SubSeq(s, Len(s) - n + 1, Len(s))

\* The length of the longest suffix of the log whose tiles fit the budget
LongestFit(s) ==
    CHOOSE n \in 0..Len(s) :
        /\ SumLog(Suffix(s, n)) <= MAX_BYTES
        /\ \A k \in 0..Len(s) : SumLog(Suffix(s, k)) <= MAX_BYTES => k <= n

\* C11: after every insert of a sequence of inserts of distinct keys (no
\* tile larger than MAX_BYTES, no borrow in between) the resident tiles are
\* those of the longest suffix of the sequence whose sizes sum to at most
\* MAX_BYTES, and lru lists them in insertion order.
C11_ResidentIsLongestSuffix ==
    LET fit == Suffix(oplog, LongestFit(oplog))
        c   == cache["mag"]
    IN  /\ c.lru = [i \in 1..Len(fit) |-> fit[i].key]
        /\ Resident(c) = {fit[i].key : i \in 1..Len(fit)}
        /\ \A i \in 1..Len(fit) : c.tiles[fit[i].key].bytes = fit[i].bytes

\* C11 witness: five tiles of 3/10 of the budget went in and the last three
\* are resident.
C11_Witness ==
    /\ Len(oplog) = 5
    /\ \A i \in 1..5 : oplog[i].bytes = (3 * MAX_BYTES) \div 10
    /\ cache["mag"].lru = <<oplog[3].key, oplog[4].key, oplog[5].key>>

---------------------------------------------------------------------------
(* Call sequences on one store: inserts, gets and borrows *)

MaxOps == 4

OpModes == {"mag", "chroma"}

\* Three keys per store
OpKeys(m) ==
    IF m = "chroma" THEN {<<0, 0>>, <<0, 1>>, <<1, 0>>}
    ELSE {<<0, 1, 0>>, <<0, 1, 1>>, <<1, 2, 0>>}

\* Tiles of 3/10 and of 2/5 of the budget: three of the small ones fit, of
\* three tiles with two large ones only two do.
OpSizes == {(3 * MAX_BYTES) \div 10, (2 * MAX_BYTES) \div 5}

\* get that marks the key most recently used
AfterGet_Touch(c, key) == IF key \in Resident(c) THEN Touch(c, key) ELSE c

\* The store after c.borrow().get(..): get takes &self and writes nothing
AfterGet(c, key) == c

\* borrow that appends the key to lru whether it is resident or not
AfterBorrow_TouchAlways(c, key) == Touch(c, key)

\* The store after borrow_tile / borrow_chroma_tile: touch on a hit
AfterBorrow(c, key) == IF key \in Resident(c) THEN Touch(c, key) ELSE c

SeqGet(m, key) ==
    /\ cache' = [cache EXCEPT ![m] = AfterGet(@, key)]
    /\ oplog' = Append(oplog, Call("get", m, key, 0))
    /\ lastOp' = Did("get", m)
    /\ UNCHANGED <<files, current_file_index, spect_fft_mode, keep_orig, chroma_global_max, inflight,
                   taskVars, tile_ready_signal>>

SeqBorrow(m, key) ==
    /\ cache' = [cache EXCEPT ![m] = AfterBorrow(@, key)]
    /\ oplog' = Append(oplog, Call("borrow", m, key, 0))
    /\ lastOp' = Did("borrow", m)
    /\ UNCHANGED <<files, current_file_index, spect_fft_mode, keep_orig, chroma_global_max, inflight,
                   taskVars, tile_ready_signal>>

NextOps ==
    /\ Len(oplog) < MaxOps
    /\ \E m \in OpModes :
          /\ Quiet(m)
          /\ \/ \E key \in OpKeys(m), bytes \in OpSizes : SeqInsert(m, key, bytes)
             \/ \E key \in OpKeys(m) : SeqGet(m, key)
             \/ \E key \in OpKeys(m) : SeqBorrow(m, key)

SpecOps == Init /\ [][NextOps]_vars

\* The log is: insert A, insert B, get or borrow (acc) of A, insert C, with
\* A, B, C distinct keys of one store, and the last insert evicted exactly
\* one tile.
RecencyCase(acc) ==
    /\ Len(oplog) = 4
    /\ oplog[1].op = "insert" /\ oplog[2].op = "insert"
    /\ oplog[3].op = acc /\ oplog[4].op = "insert"
    /\ oplog[3].key = oplog[1].key
    /\ oplog[1].key # oplog[2].key
    /\ oplog[4].key \notin {oplog[1].key, oplog[2].key}
    /\ Cardinality(Resident(cache[oplog[4].mode])) = 2

\* Of A and B the store holds a and not b
Holds(a, b) ==
    /\ oplog[a].key \in Resident(cache[oplog[4].mode])
    /\ oplog[b].key \notin Resident(cache[oplog[4].mode])

\* C12, as stated: after insert A, insert B and a get or a borrow of A, an
\* insert of C that evicts one tile evicts B and leaves A.
C12_RecencyPreserved ==
    \A acc \in {"get", "borrow"} : RecencyCase(acc) => Holds(1, 2)

\* C12, amended: after a borrow of A the insert evicts B and leaves A; after
\* a get of A it evicts A and leaves B.
C12_RecencyByBorrowOnly ==
    /\ RecencyCase("borrow") => Holds(1, 2)
    /\ RecencyCase("get") => Holds(2, 1)

\* C12 witness: A was borrowed and outlived B.
C12_Witness == RecencyCase("borrow") /\ Holds(1, 2)

\* The call the step appends to the log is an op call
Calls(op) ==
    /\ Len(oplog') = Len(oplog) + 1
    /\ oplog'[Len(oplog')].op = op

LastCall == oplog[Len(oplog)]

\* C13: a get leaves the store as it is, on a hit and on a miss: tiles,
\* total_bytes and the order of lru are the same before and after.
C13_GetChangesNothing ==
    [][Calls("get") =>
          \A m \in Modes :
              /\ cache'[m].tiles = cache[m].tiles
              /\ cache'[m].total_bytes = cache[m].total_bytes
              /\ cache'[m].lru = cache[m].lru]_vars

\* C13 witness: the last call was a get of a resident key that is not the
\* most recently used one.
C13_Witness ==
    /\ oplog # << >>
    /\ LastCall.op = "get"
    /\ LastCall.key \in Resident(cache[LastCall.mode])
    /\ cache[LastCall.mode].lru[Len(cache[LastCall.mode].lru)] # LastCall.key

\* C14: a borrow of a resident key moves the key to the tail of lru, keeps
\* the order of the other keys and leaves tiles and total_bytes as they
\* are; a borrow of an absent key changes nothing.
C14_BorrowMovesToTail ==
    [][Calls("borrow") =>
          LET k == oplog'[Len(oplog')].key
              m == oplog'[Len(oplog')].mode
          IN  /\ \A o \in Modes \ {m} : cache'[o] = cache[o]
              /\ cache'[m].tiles = cache[m].tiles
              /\ cache'[m].total_bytes = cache[m].total_bytes
              /\ IF k \in Resident(cache[m])
                 THEN /\ Len(cache'[m].lru) = Len(cache[m].lru)
                      /\ cache'[m].lru[Len(cache'[m].lru)] = k
                      /\ Retain(cache'[m].lru, k) = Retain(cache[m].lru, k)
                 ELSE cache'[m].lru = cache[m].lru]_vars

\* C14 witness: A and B were inserted, A was borrowed, and lru lists B
\* before A.
C14_Witness ==
    /\ Len(oplog) = 3
    /\ oplog[1].op = "insert" /\ oplog[2].op = "insert"
    /\ LastCall.op = "borrow" /\ LastCall.key = oplog[1].key
    /\ cache[LastCall.mode].lru = <<oplog[2].key, oplog[1].key>>

---------------------------------------------------------------------------
(* Claims about lookups and repeated schedule calls *)

\* SpecLookup: the renderer's lookups beside the scheduler and the tasks of
\* the magnitude and the chroma store (the flow and the reassignment store
\* have the same lookup code).  The renderer looks up the tiles of the mode
\* the driver is working in.
LookupSchedule ==
    \/ \E k \in LodKeys :
          OneModeAtATime("mag") /\ schedule_tile_lod(k[1], k[2], k[3])
    \/ \E k \in Lod1Keys :
          OneModeAtATime("chroma") /\ schedule_chroma_tile(k[1], k[2])

Lookup ==
    \E m \in Modes :
        /\ Busy(m)
        /\ \E key \in SchedKeys(m) :
              \/ get_tile(m, key)
              \/ borrow_tile(m, key)

NextLookup ==
    \/ LookupSchedule
    \/ \E f \in FileUniverse : LoadFile(f)
    \/ \E m \in Modes : clear_all_tiles(m)
    \/ Run
    \/ Lookup

SpecLookup == Init /\ [][NextLookup]_vars

\* The step writes no store, no in-flight set, no task and no redraw
NoEffect ==
    /\ cache' = cache
    /\ inflight' = inflight
    /\ tasks' = tasks
    /\ tile_ready_signal' = tile_ready_signal

\* C15: a schedule call of any entry point for a key that is resident in
\* the store of its mode launches no task and leaves the in-flight sets,
\* the stores (tiles, lru, total_bytes) and the redraw counter as they are,
\* for as long as the key is resident.
C15_ResidentKeyIsNoOp ==
    [][/\ \A k \in LodKeys :
              /\ (k \in Resident(cache["mag"]) /\ schedule_tile_lod(k[1], k[2], k[3]))
                     => NoEffect
              /\ (k \in Resident(cache["reassign"])
                     /\ schedule_reassign_tile(k[1], k[2], k[3])) => NoEffect
              /\ \A algo \in FlowAlgos :
                    (k \in Resident(cache["flow"])
                       /\ schedule_flow_tile(k[1], k[2], k[3], algo)) => NoEffect
       /\ \A k \in Lod1Keys :
              /\ (<<k[1], 1, k[2]>> \in Resident(cache["mag"])
                     /\ \/ schedule_tile(k[1], k[2])
                        \/ schedule_tile_from_store(k[1], k[2])
                        \/ schedule_tile_on_demand(k[1], k[2])) => NoEffect
              /\ (k \in Resident(cache["chroma"]) /\ schedule_chroma_tile(k[1], k[2]))
                     => NoEffect
       /\ \A t \in Spawned : t.key \notin Resident(cache[t.mode])]_vars

\* C15 witness: a schedule call has returned at its first check: nothing is
\* in flight, so the key it asked for is resident.
C15_Witness ==
    /\ lastOp.op = "known"
    /\ tasks = EmptyBag
    /\ inflight[lastOp.mode] = {}
    /\ cache[lastOp.mode] # EmptyCache

\* C16: a get or a borrow, hit or miss, leaves every in-flight set, the
\* pending tasks and the redraw counter as they are.
C16_LookupsStartNothing ==
    [][(\E m \in Modes : \E key \in SchedKeys(m) :
            get_tile(m, key) \/ borrow_tile(m, key))
          => /\ inflight' = inflight
             /\ tasks' = tasks
             /\ tile_ready_signal' = tile_ready_signal]_vars

\* C16 witness: a tile was borrowed while a task was pending for another
\* key of the same store.
C16_Witness ==
    /\ lastOp.op = "borrow"
    /\ inflight[lastOp.mode] # {}
    /\ \E t \in Live : t.mode = lastOp.mode

---------------------------------------------------------------------------
(* The tile arithmetic: tile counts, backend columns, fallback windows *)

MaxMathTile == 4

\* The FFT sizes of the settings panel
SelectableFft == {256, 512, 1024, 2048, 4096, 8192}

\* Column counts minus one at which the tile count steps
MathKs == {0, 1, 255, 256, 511, 512}

\* File lengths: short files around the FFT sizes, and fft + k * hop (+ 1)
\* for every level
SampleCounts ==
    {0, 1, 255, 256, 2047, 4096, 8191, 8192, 10240}
        \cup {FftOf(l) + k * HopOf(l) + r : l \in 0..3, k \in MathKs, r \in 0..1}

\* Zoom levels (in thousandths) below, at and above every threshold of
\* select_lod, and NaN
Zooms ==
    {Milli(v) : v \in {-1000, 0, 1, 250, 499, 500, 501, 1000, 1999, 2000, 2001,
                       4000, 7999, 8000, 8001, 100000}} \cup {NaN}

\* The arguments of one computation
MathArgs ==
    {[op |-> "tile_args", total_samples |-> n, lod |-> l, fft |-> f] :
        n \in SampleCounts, l \in 0..3, f \in SelectableFft}
    \cup {[op |-> "fallback_args", target_lod |-> l, target_tile |-> t,
           fallback_lod |-> fb] : l \in 0..3, t \in 0..MaxMathTile, fb \in 0..3}
    \cup {[op |-> "zoom_args", zoom |-> z] : z \in Zooms}

InitMath ==
    /\ files = << >>
    /\ current_file_index = None
    /\ spect_fft_mode = 2048
    /\ cache = [m \in Modes |-> EmptyCache]
    /\ inflight = [m \in Modes |-> {}]
    /\ tasks = EmptyBag
    /\ tile_ready_signal = <<0, 0>>
    /\ lastOp = Other
    /\ keep_orig = FALSE
    /\ chroma_global_max = << >>
    /\ \E a \in MathArgs : oplog = <<a>>

\* The step appends the result r of a computation on the arguments
Returns(r) ==
    /\ Len(oplog) = 1
    /\ oplog' = Append(oplog, r)
    /\ UNCHANGED <<files, current_file_index, spect_fft_mode, keep_orig, chroma_global_max, storeVars,
                   taskVars, tile_ready_signal, lastOp>>

\* tile_count_for_samples(total_samples, lod)
CallTileCount ==
    /\ oplog[1].op = "tile_args"
    /\ Returns([op    |-> "tile_count_for_samples",
                count |-> tile_count_for_samples(oplog[1].total_samples, oplog[1].lod)])

\* The backend calls of the schedule_tile_lod tasks of tiles 0..MaxMathTile:
\* actual_fft = fft_mode.max_fft_size().max(config_hop), col_start =
\* tile_idx * TILE_COLS; cols[t] is the number of columns tile t gets.
CallBackend ==
    /\ oplog[1].op = "tile_args"
    /\ Returns([op   |-> "compute_spectrogram_partial",
                cols |-> [t \in 0..MaxMathTile |->
                            compute_spectrogram_partial(
                                oplog[1].total_samples,
                                Max(oplog[1].fft, HopOf(oplog[1].lod)),
                                HopOf(oplog[1].lod), t * TILE_COLS, TILE_COLS)]])

\* fallback_tile_info(target_lod, target_tile, fallback_lod)
CallFallback ==
    /\ oplog[1].op = "fallback_args"
    /\ Returns([op  |-> "fallback_tile_info",
                out |-> fallback_tile_info(oplog[1].target_lod, oplog[1].target_tile,
                                           oplog[1].fallback_lod)])

\* select_lod(zoom)
CallSelectLod ==
    /\ oplog[1].op = "zoom_args"
    /\ Returns([op |-> "select_lod", lod |-> select_lod(oplog[1].zoom)])

NextMath == CallTileCount \/ CallBackend \/ CallFallback \/ CallSelectLod

SpecMath == InitMath /\ [][NextMath]_vars

\* The log holds the arguments and the result of an op computation
Computed(op) == Len(oplog) = 2 /\ oplog[2].op = op

RECURSIVE SumCols(_, _)
SumCols(cols, n) == IF n < 0 THEN 0 ELSE cols[n] + SumCols(cols, n - 1)

\* C17: for every file length, level and selectable FFT size the backend,
\* called as schedule_tile_lod calls it, produces the number of columns
\* that tile_count_for_samples counts with (compared over the tiles
\* 0..MaxMathTile), and gives a tile at least one column exactly when
\* tile_idx < tile_count_for_samples(total_samples, lod).
C17_TileCountMatchesBackend ==
    Computed("compute_spectrogram_partial") =>
        LET n     == oplog[1].total_samples
            lod   == oplog[1].lod
            count == IF n < FftOf(lod) THEN 0
                     ELSE (n - FftOf(lod)) \div HopOf(lod) + 1
        IN  /\ SumCols(oplog[2].cols, MaxMathTile)
                  = Min(count, (MaxMathTile + 1) * TILE_COLS)
            /\ \A t \in 0..MaxMathTile :
                  oplog[2].cols[t] > 0 <=> t < tile_count_for_samples(n, lod)

\* The least c with c * d >= n
CeilDiv(n, d) == CHOOSE c \in 0..n : c * d >= n /\ (c = 0 \/ (c - 1) * d < n)

\* C18: tile_count_for_samples(n, lod) is 0 for every n < fft_size(lod)
\* and ceil((k + 1) / TILE_COLS) for n = fft_size(lod) + k * hop_size(lod);
\* 263,680 samples are 2 tiles at LOD 1.
C18_TileCountFormula ==
    Computed("tile_count_for_samples") =>
        LET n   == oplog[1].total_samples
            lod == oplog[1].lod
        IN  /\ n < FftOf(lod) => oplog[2].count = 0
            /\ \A k \in MathKs :
                  n = FftOf(lod) + k * HopOf(lod)
                      => oplog[2].count = CeilDiv(k + 1, TILE_COLS)
            /\ (n = 263680 /\ lod = 1) => oplog[2].count = 2

\* C18 witness: the tiles of 263,680 samples at LOD 1 have been counted.
C18_Witness ==
    /\ Computed("tile_count_for_samples")
    /\ oplog[1].total_samples = 263680
    /\ oplog[1].lod = 1
    /\ oplog[2].count = 2

\* C19: fallback_tile_info(l, t, l) = (t, 0, TILE_COLS) for every level l
\* and every tile t.
C19_FallbackToSelfIsIdentity ==
    (Computed("fallback_tile_info") /\ oplog[1].target_lod = oplog[1].fallback_lod)
        => oplog[2].out = <<oplog[1].target_tile, 0, TILE_COLS>>

\* C19 witness: tile 3 of LOD 2 has been mapped to LOD 2.
C19_Witness ==
    /\ Computed("fallback_tile_info")
    /\ oplog[1].target_lod = 2 /\ oplog[1].fallback_lod = 2
    /\ oplog[1].target_tile = 3
    /\ oplog[2].out = <<3, 0, TILE_COLS>>

\* C20: for every pair of levels and every target tile the window
\* (fb_tile, start, end) of fallback_tile_info has 0 <= start < end <=
\* TILE_COLS and covers the samples of the target tile:
\* [(fb_tile * TILE_COLS + start) * hop(fallback_lod),
\*  (fb_tile * TILE_COLS + end) * hop(fallback_lod)).
C20_FallbackWindowInsideTile ==
    Computed("fallback_tile_info") =>
        LET fb_tile == oplog[2].out[1]
            start   == oplog[2].out[2]
            end     == oplog[2].out[3]
            th      == HopOf(oplog[1].target_lod)
            fh      == HopOf(oplog[1].fallback_lod)
            t       == oplog[1].target_tile
        IN  /\ 0 <= start /\ start < end /\ end <= TILE_COLS
            /\ (fb_tile * TILE_COLS + start) * fh = t * TILE_COLS * th
            /\ (fb_tile * TILE_COLS + end) * fh = (t + 1) * TILE_COLS * th

\* C21: select_lod(zoom) is 3 for zoom >= 8, 2 for 2 <= zoom < 8, 1 for
\* 0.5 <= zoom < 2 and 0 otherwise; it does not decrease when zoom grows
\* and stays below NUM_LODS; every level's hop is 4 times the next one's.
C21_SelectLodThresholds ==
    /\ \A l \in 0..(NUM_LODS - 2) : HopOf(l) = 4 * HopOf(l + 1)
    /\ Computed("select_lod") =>
          LET z   == oplog[1].zoom
              lod == oplog[2].lod
          IN  /\ lod \in 0..(NUM_LODS - 1)
              /\ lod = 3 <=> (~z.nan /\ z.milli >= 8000)
              /\ lod = 2 <=> (~z.nan /\ 2000 <= z.milli /\ z.milli < 8000)
              /\ lod = 1 <=> (~z.nan /\ 500 <= z.milli /\ z.milli < 2000)
              /\ \A y \in Zooms :
                    (~z.nan /\ ~y.nan /\ y.milli <= z.milli)
                        => select_lod(y) <= lod

\* C21 witness: a zoom of exactly 2.0 has been mapped to LOD 2.
C21_Witness ==
    /\ Computed("select_lod")
    /\ oplog[1].zoom = Milli(2000)
    /\ oplog[2].lod = 2

\* C22: every resident tile is 0 or exactly TILE_COLS columns wide, whichever
\* operation inserted it (a scheduled task on the last tile of a file whose
\* column count is not a multiple of TILE_COLS, or a live render of fewer
\* than TILE_COLS columns).
C22_TileWidthZeroOrFull ==
    \A m \in Modes : \A k \in Resident(cache[m]) :
        cache[m].tiles[k].width \in {0, TILE_COLS}

---------------------------------------------------------------------------
(* The redraw counter near the maximum of its type *)

\* Effect 2b of the spectrogram component: the FFT selection changed; the
\* magnitude, flow and reassignment caches are cleared with their in-flight
\* sets and the redraw counter is raised.
OnFftModeChange(fft) ==
    /\ fft # spect_fft_mode
    /\ BagCardinality(tasks) < RaisesLeft(tile_ready_signal)
    /\ spect_fft_mode' = fft
    /\ cache' = [m \in Modes |->
                    IF m = "chroma" THEN cache[m] ELSE clear_all(cache[m])]
    /\ inflight' = [m \in Modes |-> IF m = "chroma" THEN inflight[m] ELSE {}]
    /\ tile_ready_signal' = WrappingInc(tile_ready_signal)
    /\ lastOp' = Did("clear_all", "mag")
    /\ UNCHANGED <<files, current_file_index, keep_orig, chroma_global_max, oplog, taskVars>>

\* The end of the recording's spectrogram task (microphone.rs): the
\* spectrogram is stored in the file, whose column count the model carries
\* from the start, and the counter is raised with n += 1, which wraps in a
\* build without overflow checks (the release profile).
RecordingSpectrogramReady ==
    /\ files # << >>
    /\ BagCardinality(tasks) < RaisesLeft(tile_ready_signal)
    /\ tile_ready_signal' = WrappingInc(tile_ready_signal)
    /\ lastOp' = Other
    /\ UNCHANGED <<envVars, storeVars, taskVars>>

\* The counter after a long session: the last values before the maximum
\* 65535 * 65536 + 65535 of the type.
NearMax == {<<65535, 65534>>, <<65535, 65535>>}

InitWrap ==
    /\ files = << >>
    /\ current_file_index = None
    /\ spect_fft_mode = 2048
    /\ cache = [m \in Modes |-> EmptyCache]
    /\ inflight = [m \in Modes |-> {}]
    /\ tasks = EmptyBag
    /\ tile_ready_signal \in NearMax
    /\ lastOp = Other
    /\ keep_orig = FALSE
    /\ chroma_global_max = << >>
    /\ oplog = << >>

FftModeEffect == \E fft \in FftSizes : OnFftModeChange(fft)

NextWrap ==
    \/ LookupSchedule
    \/ \E f \in FileUniverse : LoadFile(f)
    \/ Run
    \/ FftModeEffect
    \/ RecordingSpectrogramReady

SpecWrap == InitWrap /\ [][NextWrap]_vars

\* The order of two counter values
Greater(a, b) == a[1] > b[1] \/ (a[1] = b[1] /\ a[2] > b[2])

\* C23: the redraw counter is monotonically increasing: every step that
\* raises it, a completing task's or the host's after a cache clear, leaves
\* a strictly greater value, for every value of its unsigned type.
C23_RedrawCounterIncreases ==
    [][tile_ready_signal' # tile_ready_signal
          => Greater(tile_ready_signal', tile_ready_signal)]_vars

---------------------------------------------------------------------------
(* SpecEvict: the magnitude store with evict_far beside direct inserts and  *)
(* the scheduler, so that keys are in flight while tiles are evicted.       *)

EvictArgs ==
    {<<f, 1, c, r>> : f \in 0..1, c \in 0..MaxTileIdx, r \in 0..1}

EvictFar == \E a \in EvictArgs : evict_far(a[1], a[2], a[3], a[4])

\* The tiles the driver inserts: an empty one and one of 2/5 of the budget
EvictTiles == {t \in StoreTiles : t.bytes <= MAX_BYTES}

NextEvict ==
    \/ \E key \in StoreKeys("mag"), tile \in EvictTiles :
          StoreInsert("mag", key, tile)
    \/ schedule_tile_lod(0, 1, 0)
    \/ LoadFile(FileA)
    \/ Run
    \/ EvictFar

SpecEvict == InitCache /\ [][NextEvict]_vars

\* The entries evict_far(file_idx, lod, center_tile, keep_radius) is to remove
FarKeys(c, a) ==
    {k \in DOMAIN c.tiles :
        /\ k[1] = a[1]
        /\ k[2] = a[2]
        /\ (k[3] > a[3] + a[4] \/ a[3] > k[3] + a[4])}

\* C24: evict_far(file_idx, lod, center_tile, keep_radius) removes exactly
\* the entries of (file_idx, lod) whose tile index is farther than
\* keep_radius from center_tile, wherever they stand in lru; the other
\* entries stay, in their relative lru order; total_bytes falls by the bytes
\* of the removed tiles; the in-flight sets and the other caches are not
\* touched.  (A call that removes nothing changes nothing at all.)
C24_EvictFarRemovesExactlyFar ==
    [][\A a \in EvictArgs :
          (lastOp' = Did("evict_far", "mag") /\ evict_far(a[1], a[2], a[3], a[4])) =>
              LET old == cache["mag"]
                  new == cache'["mag"]
                  far == FarKeys(old, a)
              IN  /\ DOMAIN new.tiles = (DOMAIN old.tiles) \ far
                  /\ \A k \in DOMAIN new.tiles : new.tiles[k] = old.tiles[k]
                  /\ new.lru = SelectSeq(old.lru, LAMBDA k : k \notin far)
                  /\ new.total_bytes + SumBytes(old.tiles, far) = old.total_bytes
                  /\ inflight' = inflight
                  /\ \A m \in Modes \ {"mag"} : cache'[m] = cache[m]]_vars

\* C24 witness: evict_far has just removed a tile while another tile is
\* resident and a key is in flight.
C24_Witness ==
    /\ lastOp = Did("evict_far", "mag")
    /\ Resident(cache["mag"]) # {}
    /\ inflight["mag"] # {}

---------------------------------------------------------------------------
(* SpecClear: the magnitude, flow and reassignment stores with their clears *)
(* beside direct inserts and the scheduler, for tiles and in-flight keys of *)
(* two files.                                                               *)

ClearModes == {"mag", "flow", "reassign"}

\* The first tile of each file, requested through the mode's scheduler
ScheduleFirst(m, f) ==
    CASE m = "mag"      -> schedule_tile_lod(f, 1, 0)
      [] m = "flow"     -> schedule_flow_tile(f, 1, 0, "Optical")
      [] m = "reassign" -> schedule_reassign_tile(f, 1, 0)

ClearInsert == \E m \in ClearModes : \E key \in StoreKeys(m) :
    /\ OneModeAtATime(m)
    /\ StoreInsert(m, key, [bytes |-> (2 * MAX_BYTES) \div 5, width |-> TILE_COLS])

ClearSchedule == \E m \in ClearModes, f \in 0..1 :
    OneModeAtATime(m) /\ ScheduleFirst(m, f)

ClearFile == \E m \in ClearModes, f \in 0..1 : clear_file(m, f)

ClearAll == \E m \in ClearModes : clear_all_tiles(m)

NextClear ==
    \/ ClearInsert
    \/ ClearSchedule
    \/ \E f \in FileUniverse : LoadFile(f)
    \/ Run
    \/ ClearFile
    \/ ClearAll

SpecClear == InitCache /\ [][NextClear]_vars

\* C25: clear_file(f), and its flow and reassignment counterparts, leave no
\* resident tile and no in-flight key of file f in their cache and leave the
\* other files' tiles, their relative lru order and their in-flight keys as
\* they were; clear_all_tiles and its counterparts leave tiles, lru and the
\* in-flight set empty and total_bytes 0.
C25_ClearsRemoveTilesAndInFlight ==
    [][\A m \in ClearModes :
          /\ \A f \in 0..1 :
                (lastOp' = Did("clear_file", m) /\ clear_file(m, f)) =>
                    LET old == cache[m]
                        new == cache'[m]
                        others == {k \in DOMAIN old.tiles : k[1] # f}
                    IN  /\ \A k \in DOMAIN new.tiles \cup inflight'[m] : k[1] # f
                        /\ DOMAIN new.tiles = others
                        /\ \A k \in others : new.tiles[k] = old.tiles[k]
                        /\ new.lru = SelectSeq(old.lru, LAMBDA k : k[1] # f)
                        /\ inflight'[m] = {k \in inflight[m] : k[1] # f}
          /\ (lastOp' = Did("clear_all", m) /\ clear_all_tiles(m)) =>
                /\ DOMAIN cache'[m].tiles = {}
                /\ cache'[m].lru = << >>
                /\ cache'[m].total_bytes = 0
                /\ inflight'[m] = {}]_vars

\* C25 witness: clear_file has just cleared the magnitude cache of one file
\* while a tile and an in-flight key of the other file stay.
C25_Witness ==
    /\ lastOp = Did("clear_file", "mag")
    /\ Resident(cache["mag"]) # {}
    /\ inflight["mag"] # {}

---------------------------------------------------------------------------
(* The prefetch planner: one invocation of schedule_prefetch_tiles *)

\* A recording of 400000 samples: 49 tiles at LOD 3, 13 at LOD 2, 4 at
\* LOD 1, 1 at LOD 0; and a file shorter than one FFT window (no tile).
FileLong == [name |-> "long", samples |-> 400000, columns |-> 778]
FileTiny == [name |-> "tiny", samples |-> 1000, columns |-> 0]
PrefetchFiles == {FileA, FileB, FileLong, FileTiny}

\* Times are f64 seconds, here whole numbers of half seconds (exact in
\* binary floating point, like their products with a sample rate).
\* The caller passes 5.0 and 3.0 for ahead_secs and initial_secs.
CenterTimes  == {-2, 0, 1, 4, 10, 18, 40}
AheadTimes   == {0, 10, 40}
InitialTimes == {0, 6, 20}
SampleRates  == {8000, 44100}
PrefetchZooms == {NaN, Milli(250), Milli(1000), Milli(2000), Milli(8000)}

PrefetchArgs ==
    {[op |-> "prefetch_args", center_time |-> c, ahead_secs |-> a,
      initial_secs |-> i, zoom |-> z, sample_rate |-> sr, flow_algo |-> fa,
      reassign |-> re] :
        c \in CenterTimes, a \in AheadTimes, i \in InitialTimes,
        z \in PrefetchZooms, sr \in SampleRates,
        fa \in {None, Some("Optical")}, re \in BOOLEAN}

\* let max_prefetch: usize = 30
max_prefetch == 30

\* time_to_tile: (t * sample_rate as f64) as usize / hop / TILE_COLS; the
\* cast of a negative product gives 0.  t is in half seconds.
time_to_tile(t, sample_rate, hop) ==
    LET sample == IF t * sample_rate < 0 THEN 0 ELSE (t * sample_rate) \div 2
    IN  (sample \div hop) \div TILE_COLS

\* Region 1: for t in center_tile..=ahead_end, up to max_prefetch tiles
Region1(center_tile, ahead_end) ==
    IF center_tile > ahead_end THEN << >>
    ELSE [i \in 1..Min(ahead_end - center_tile + 1, max_prefetch) |->
             center_tile + i - 1]

Contains(tiles, t) == \E i \in 1..Len(tiles) : tiles[i] = t

\* Region 2 without the contains check
RECURSIVE Region2_NoContains(_, _, _)
Region2_NoContains(tiles, t, initial_end) ==
    IF t > initial_end \/ Len(tiles) >= max_prefetch THEN tiles
    ELSE Region2_NoContains(Append(tiles, t), t + 1, initial_end)

\* Region 2: for t in 0..=initial_end, break at max_prefetch tiles, push t
\* unless tiles.contains(&t)
RECURSIVE Region2(_, _, _)
Region2(tiles, t, initial_end) ==
    IF t > initial_end \/ Len(tiles) >= max_prefetch THEN tiles
    ELSE Region2(IF Contains(tiles, t) THEN tiles ELSE Append(tiles, t),
                 t + 1, initial_end)

\* The Vec tiles of schedule_prefetch_tiles, empty when max_tiles == 0
PrefetchTiles(total_samples, a) ==
    LET lod          == select_lod(a.zoom)
        hop          == HopOf(lod)
        max_tiles    == tile_count_for_samples(total_samples, lod)
        center_tile  == time_to_tile(a.center_time, a.sample_rate, hop)
        ahead_end    == Min(time_to_tile(a.center_time + a.ahead_secs,
                                         a.sample_rate, hop),
                            SatSub(max_tiles, 1))
        initial_end  == Min(time_to_tile(a.initial_secs, a.sample_rate, hop),
                            SatSub(max_tiles, 1))
    IN  IF max_tiles = 0 THEN << >>
        ELSE Region2(Region1(center_tile, ahead_end), 0, initial_end)

ScheduleCall(fn, m, file_idx, lod, t, algo) ==
    [fn |-> fn, mode |-> m, key |-> <<file_idx, lod, t>>, algo |-> algo]

\* The calls of the final loop for one tile, with the reassignment tile
\* requested at every level
CallsOfTile_ReassignAlways(t, file_idx, lod, a) ==
    <<ScheduleCall("schedule_tile_lod", "mag", file_idx, lod, t, "")>>
    \o (IF a.flow_algo # None
        THEN <<ScheduleCall("schedule_flow_tile", "flow", file_idx, lod, t,
                            Unwrap(a.flow_algo))>>
        ELSE << >>)
    \o (IF a.reassign
        THEN <<ScheduleCall("schedule_reassign_tile", "reassign", file_idx, lod, t, "")>>
        ELSE << >>)

\* The body of the final loop for one tile t: the schedule_* calls it makes
CallsOfTile(t, file_idx, lod, a) ==
    <<ScheduleCall("schedule_tile_lod", "mag", file_idx, lod, t, "")>>
    \o (IF a.flow_algo # None
        THEN <<ScheduleCall("schedule_flow_tile", "flow", file_idx, lod, t,
                            Unwrap(a.flow_algo))>>
        ELSE << >>)
    \o (IF a.reassign /\ lod > 0
        THEN <<ScheduleCall("schedule_reassign_tile", "reassign", file_idx, lod, t, "")>>
        ELSE << >>)

\* The final loop, for t in tiles: the calls of every tile, in order (each
\* tile has the same number n of calls)
PrefetchCalls(tiles, file_idx, lod, a) ==
    LET n == Len(CallsOfTile(0, file_idx, lod, a))
    IN  [j \in 1..(n * Len(tiles)) |->
            CallsOfTile(tiles[((j - 1) \div n) + 1], file_idx, lod, a)[((j - 1) % n) + 1]]

\* The future a schedule_* call spawns for its key
CallTask(c) ==
    CASE c.fn = "schedule_tile_lod" ->
            NewTask("lod", "mag", c.key, spect_fft_mode, "", NoFile)
      [] c.fn = "schedule_flow_tile" ->
            NewTask("flow", "flow", c.key, Max(spect_fft_mode, HopOf(c.key[2])),
                    c.algo, NoFile)
      [] c.fn = "schedule_reassign_tile" ->
            NewTask("reassign", "reassign", c.key,
                    Max(spect_fft_mode, HopOf(c.key[2])), "", NoFile)
      [] c.fn = "schedule_tile_from_store" ->
            NewTask("from_store", "mag", c.key, 2048, "", NoFile)
      [] c.fn = "schedule_tile_on_demand" ->
            NewTask("on_demand", "mag", c.key, 2048, "", NoFile)

\* The bounds check of a call: schedule_tile_from_store and
\* schedule_tile_on_demand have none
CallPastEnd(c) ==
    /\ c.fn \notin {"schedule_tile_from_store", "schedule_tile_on_demand"}
    /\ PastEnd(c.key[1], c.key[2], c.key[3])

\* AfterCalls whose early return looks at the tiles of every instance
AfterCalls_SharedTiles(calls, infl, tk) ==
    LET spawning ==
            {i \in 1..Len(calls) :
                /\ \A o \in Modes : calls[i].key \notin Resident(cache[o])
                /\ calls[i].key \notin infl[calls[i].mode]
                /\ ~CallPastEnd(calls[i])
                /\ \A j \in 1..(i - 1) :
                      \/ calls[j].mode # calls[i].mode
                      \/ calls[j].key # calls[i].key}
    IN  [inflight |-> [m \in Modes |->
                        infl[m] \cup {calls[i].key : i \in {j \in spawning :
                                                              calls[j].mode = m}}],
         tasks    |-> tk (+) SetToBag({CallTask(calls[i]) : i \in spawning})]

\* The in-flight sets and the pending futures after the calls, made in
\* order: a call returns early for a resident or in-flight key (one
\* inserted by an earlier call included) and for a tile past the end, else
\* it inserts the key and spawns the future.
AfterCalls(calls, infl, tk) ==
    LET spawning ==
            {i \in 1..Len(calls) :
                /\ calls[i].key \notin Resident(cache[calls[i].mode])
                /\ calls[i].key \notin infl[calls[i].mode]
                /\ ~CallPastEnd(calls[i])
                /\ \A j \in 1..(i - 1) :
                      \/ calls[j].mode # calls[i].mode
                      \/ calls[j].key # calls[i].key}
    IN  [inflight |-> [m \in Modes |->
                        infl[m] \cup {calls[i].key : i \in {j \in spawning :
                                                              calls[j].mode = m}}],
         tasks    |-> tk (+) SetToBag({CallTask(calls[i]) : i \in spawning})]

\* schedule_prefetch_tiles(state, file_idx, total_samples, sample_rate,
\* center_time, ahead_secs, initial_secs, zoom, flow_algo, reassign) for the
\* file at index 0; the history records the tiles selected and the calls.
schedule_prefetch_tiles ==
    /\ Len(oplog) = 1
    /\ oplog[1].op = "prefetch_args"
    /\ LET a     == oplog[1]
           tiles == PrefetchTiles(SamplesAt(0), a)
           calls == PrefetchCalls(tiles, 0, select_lod(a.zoom), a)
           after == AfterCalls(calls, inflight, tasks)
       IN  /\ inflight' = after.inflight
           /\ tasks' = after.tasks
           /\ oplog' = Append(oplog, [op |-> "schedule_prefetch_tiles",
                                      tiles |-> tiles, calls |-> calls])
    /\ lastOp' = Other
    /\ UNCHANGED <<files, current_file_index, spect_fft_mode, keep_orig, chroma_global_max, cache,
                   tile_ready_signal>>

\* One file is loaded and focused, nothing is cached or in flight
InitPrefetch ==
    /\ \E f \in PrefetchFiles : files = <<f>>
    /\ current_file_index = Some(0)
    /\ spect_fft_mode = 2048
    /\ cache = [m \in Modes |-> EmptyCache]
    /\ inflight = [m \in Modes |-> {}]
    /\ tasks = EmptyBag
    /\ tile_ready_signal = <<0, 0>>
    /\ lastOp = Other
    /\ keep_orig = FALSE
    /\ chroma_global_max = << >>
    /\ \E a \in PrefetchArgs : oplog = <<a>>

NextPrefetch == schedule_prefetch_tiles

SpecPrefetch == InitPrefetch /\ [][NextPrefetch]_vars

\* The tile count of the loaded file at the level of the call's zoom
PrefetchLod == select_lod(oplog[1].zoom)
PrefetchCount == tile_count_for_samples(SamplesAt(0), PrefetchLod)

\* C26: one invocation of schedule_prefetch_tiles selects at most 30 tile
\* indices, none twice, each below the file's tile count at the level
\* select_lod(zoom), for every center_time, ahead_secs, initial_secs, zoom
\* and sample rate; none when the tile count is 0.
C26_PrefetchSelection ==
    Computed("schedule_prefetch_tiles") =>
        LET tiles == oplog[2].tiles
        IN  /\ Len(tiles) <= 30
            /\ NoDuplicates(tiles)
            /\ \A i \in 1..Len(tiles) : tiles[i] \in 0..(PrefetchCount - 1)
            /\ PrefetchCount = 0 => oplog[2].calls = << >>

\* C26 witness: an invocation has selected 30 tiles of which the last ones
\* come from the start of the file.
C26_Witness ==
    /\ Computed("schedule_prefetch_tiles")
    /\ Len(oplog[2].tiles) = 30
    /\ oplog[2].tiles[1] > 0
    /\ oplog[2].tiles[30] < oplog[2].tiles[1]

\* C27: for every invocation on a file with at least one tile, whatever
\* center_time and zoom, every tile index from 0 to the tile containing
\* initial_secs (clamped to the last tile) is among the selected tiles.
C27_StartOfFileAlwaysSelected ==
    (Computed("schedule_prefetch_tiles") /\ PrefetchCount >= 1) =>
        LET a == oplog[1]
            initial_end ==
                Min(time_to_tile(a.initial_secs, a.sample_rate, HopOf(PrefetchLod)),
                    PrefetchCount - 1)
        IN  \A t \in 0..initial_end : Contains(oplog[2].tiles, t)

\* C28: whenever select_lod(zoom) is not 1, for every tile t selected at the
\* ideal level the LOD-1 tile fallback_tile_info(ideal_lod, t, 1).0 is
\* requested too: after the call its key is resident or in flight.
C28_FallbackRequested ==
    (Computed("schedule_prefetch_tiles") /\ PrefetchLod # 1) =>
        \A i \in 1..Len(oplog[2].tiles) :
            LET fb == fallback_tile_info(PrefetchLod, oplog[2].tiles[i], 1)[1]
            IN  \/ <<0, 1, fb>> \in Resident(cache["mag"])
                \/ <<0, 1, fb>> \in inflight["mag"]

\* The calls of one function for tile t at the invocation's level
CallsFor(fn, t) ==
    {i \in 1..Len(oplog[2].calls) :
        /\ oplog[2].calls[i].fn = fn
        /\ oplog[2].calls[i].key = <<0, PrefetchLod, t>>}

\* C29: for each selected tile t the invocation calls schedule_tile_lod
\* always, schedule_flow_tile exactly when a flow algorithm is active (with
\* that algorithm) and schedule_reassign_tile exactly when reassignment is
\* enabled and the level is not 0; it makes no other call.
C29_CallsPerTile ==
    Computed("schedule_prefetch_tiles") =>
        LET a     == oplog[1]
            tiles == oplog[2].tiles
            calls == oplog[2].calls
        IN  /\ \A i \in 1..Len(tiles) :
                  /\ Cardinality(CallsFor("schedule_tile_lod", tiles[i])) = 1
                  /\ Cardinality(CallsFor("schedule_flow_tile", tiles[i]))
                        = IF a.flow_algo # None THEN 1 ELSE 0
                  /\ \A j \in CallsFor("schedule_flow_tile", tiles[i]) :
                        Some(calls[j].algo) = a.flow_algo
                  /\ Cardinality(CallsFor("schedule_reassign_tile", tiles[i]))
                        = IF a.reassign /\ PrefetchLod # 0 THEN 1 ELSE 0
            /\ \A j \in 1..Len(calls) :
                  /\ calls[j].fn \in {"schedule_tile_lod", "schedule_flow_tile",
                                       "schedule_reassign_tile"}
                  /\ calls[j].key[1] = 0
                  /\ calls[j].key[2] = PrefetchLod
                  /\ Contains(tiles, calls[j].key[3])

\* C29 witness: an invocation at LOD 0 with a flow algorithm active and
\* reassignment enabled has selected a tile.
C29_Witness ==
    /\ Computed("schedule_prefetch_tiles")
    /\ PrefetchLod = 0
    /\ oplog[1].reassign
    /\ oplog[1].flow_algo # None
    /\ oplog[2].tiles # << >>

---------------------------------------------------------------------------
(* SpecChroma: the chroma cache and its file-wide maximum *)

\* A recording of digital silence, as long as FileA
FileQuiet == [name |-> "quiet", samples |-> 10240, columns |-> 17]

ChromaFiles == {FileA, FileQuiet}

\* The history holds at most MaxChromaLog task endings between two clears
MaxChromaLog == 3

InitChroma ==
    /\ \E f \in ChromaFiles : files = <<f>>
    /\ current_file_index = Some(0)
    /\ spect_fft_mode = 2048
    /\ cache = [m \in Modes |-> EmptyCache]
    /\ inflight = [m \in Modes |-> {}]
    /\ tasks = EmptyBag
    /\ tile_ready_signal = <<0, 0>>
    /\ lastOp = Other
    /\ keep_orig = FALSE
    /\ chroma_global_max = << >>
    /\ oplog = ChromaLogStart

ChromaSchedule ==
    /\ Len(oplog) + BagCardinality(tasks) <= MaxChromaLog
    /\ \E k \in Lod1Keys : schedule_chroma_tile(k[1], k[2])

clear_chroma_cache == clear_all_tiles("chroma")

NextChroma == ChromaSchedule \/ Run \/ clear_chroma_cache

SpecChroma == InitChroma /\ [][NextChroma]_vars

\* C30: between two clears of the chroma cache all chroma tiles of one file
\* are rendered with the same (max_class, max_note) pair and the file-wide
\* maximum is computed at most once for the file, whatever the order of the
\* requests and whatever the first computation returned.
C30_OneMaxPerFile ==
    ChromaLogging =>
        \A i, j \in 2..Len(oplog) :
            oplog[i].file = oplog[j].file =>
                /\ (oplog[i].rendered /\ oplog[j].rendered)
                      => oplog[i].pair = oplog[j].pair
                /\ (oplog[i].computed /\ oplog[j].computed) => i = j

---------------------------------------------------------------------------
(* SpecMemo: the chroma memo beside the magnitude cache of the same file *)

\* The display shows the magnitude tile of the file as well
MemoMagnitude == schedule_tile_lod(0, 1, 0)

MemoClearFile == \E f \in FileIdxs : clear_file("mag", f)

NextMemo ==
    \/ ChromaSchedule
    \/ MemoMagnitude
    \/ Run
    \/ clear_chroma_cache
    \/ MemoClearFile

SpecMemo == InitChroma /\ [][NextMemo]_vars

\* C31: whenever the cached tiles of a file are cleared, by
\* clear_chroma_cache or by clear_file for that file, the file's entry of the
\* chroma normalisation memo is removed too, so that the next chroma request
\* for the file recomputes (max_class, max_note).
C31_ClearRemovesMemo ==
    [][\A f \in FileIdxs :
          (\/ (lastOp' = Did("clear_file", "mag") /\ clear_file("mag", f))
           \/ (lastOp' = Did("clear_all", "chroma") /\ clear_all_tiles("chroma")))
              => f \notin DOMAIN chroma_global_max']_vars


\* ---------------------------------------------------------------------
\* The four cache instances side by side (thread_local! CACHE, FLOW_CACHE,
\* REASSIGN_CACHE, CHROMA_CACHE and their in-flight sets): direct calls on
\* every instance, one prefetch that asks for the same tile in the
\* magnitude, flow and reassignment modes, and the tasks it launches.

\* The same tile of one file in every mode, and a second tile in the
\* magnitude mode; two tiles do not fit the budget
IndepKeys(m) == IF m = "chroma" THEN {<<0, 0>>}
                ELSE IF m = "mag" THEN {<<0, 1, 0>>, <<0, 1, 1>>}
                ELSE {<<0, 1, 0>>}

IndepTile == [bytes |-> (3 * MAX_BYTES) \div 5, width |-> TILE_COLS]

\* The prefetch of tile 0 at LOD 1 with flow and reassignment on
IndepArgs ==
    [op |-> "prefetch_args", center_time |-> 0, ahead_secs |-> 0,
     initial_secs |-> 0, zoom |-> Milli(1000), sample_rate |-> 44100,
     flow_algo |-> Some("Optical"), reassign |-> TRUE]

InitIndep ==
    /\ files = <<FileA>>
    /\ current_file_index = Some(0)
    /\ spect_fft_mode = 2048
    /\ cache = [m \in Modes |-> EmptyCache]
    /\ inflight = [m \in Modes |-> {}]
    /\ tasks = EmptyBag
    /\ tile_ready_signal = <<0, 0>>
    /\ lastOp = Other
    /\ keep_orig = FALSE
    /\ chroma_global_max = << >>
    /\ oplog = <<IndepArgs>>

IndepInsert == \E m \in Modes : \E key \in IndepKeys(m) : StoreInsert(m, key, IndepTile)
IndepBorrow == \E m \in Modes : \E key \in IndepKeys(m) : borrow_tile(m, key)
IndepClearFile == \E m \in ClearModes : clear_file(m, 0)
IndepClearAll == \E m \in Modes : clear_all_tiles(m)
IndepEvict == evict_far(0, 1, 1, 0)

NextIndep ==
    \/ IndepInsert
    \/ IndepBorrow
    \/ IndepClearFile
    \/ IndepClearAll
    \/ IndepEvict
    \/ schedule_prefetch_tiles
    \/ Run

SpecIndep == InitIndep /\ [][NextIndep]_vars

\* The instances other than m are left as they were by the step
OthersUnchanged(m) ==
    \A o \in Modes \ {m} : cache'[o] = cache[o] /\ inflight'[o] = inflight[o]

\* C32: the four cache instances are independent: an operation on one
\* instance (insert, eviction, borrow, clear, a task's insert or give-up)
\* leaves the tiles, lru, total_bytes and in-flight set of the other three
\* unchanged, and a schedule call for a key returns early only for what its
\* own instance holds: a key resident or in flight in another mode does not
\* keep the call from putting the key in flight in its own mode.
C32_InstancesIndependent ==
    [][/\ lastOp'.mode \in Modes => OthersUnchanged(lastOp'.mode)
       /\ (Len(oplog) = 1 /\ Computed("schedule_prefetch_tiles")') =>
             \A i \in 1..Len(oplog'[2].calls) :
                 LET c == oplog'[2].calls[i]
                 IN  c.key \in inflight'[c.mode] <=>
                        c.key \notin Resident(cache[c.mode])]_vars

\* C32 witness: the tile (0, 1, 0) is resident in the magnitude cache and,
\* scheduled by the prefetch after that, in flight in the flow and
\* reassignment modes, while the chroma cache holds a tile of its own.
C32_Witness ==
    /\ Computed("schedule_prefetch_tiles")
    /\ <<0, 1, 0>> \in Resident(cache["mag"])
    /\ <<0, 1, 0>> \in inflight["flow"] \cap inflight["reassign"]
    /\ <<0, 1, 0>> \notin inflight["mag"]
    /\ \A t \in Live : t.mode # "mag"
    /\ tile_ready_signal = <<0, 0>>
    /\ Resident(cache["chroma"]) # {}

---------------------------------------------------------------------------
(* Tasks that outlive a clear *)

\* C33: a task scheduled before a clear (clear_all_tiles, clear_flow_cache,
\* clear_reassign_cache, or clear_file for its file) never inserts its tile
\* after that clear: a task that inserts finds its key still in flight,
\* as its schedule call left it.
C33_NoInsertAfterClear ==
    [][\A t \in Live :
          (lastOp' = Did("task_insert", t.mode) /\ Ends(t))
              => t.key \in inflight[t.mode]]_vars

\* The audio a flow or reassignment task holds across its last yield is
\* that of the file now loaded at its file_idx: what the task would read
\* there now is what it read
HeldAudioCurrent(t) ==
    /\ HasFile(KeyFile(t.key))
    /\ t.read = IF t.kind = "flow" /\ t.algo # "Phase"
                THEN SamplesAt(KeyFile(t.key))
                ELSE SliceLen(t, TILE_COLS)

\* C34: no task inserts under key (file_idx, ...) a tile computed from the
\* audio of a file other than the one loaded at file_idx at the moment of
\* insertion; this includes the flow and reassignment tasks, which yield
\* once more between reading the audio and computing (the other tasks read
\* and insert without a yield between).
C34_InsertsFromLoadedFile ==
    [][\A t \in Live :
          (/\ t.pc = "compute"
           /\ lastOp' = Did("task_insert", t.mode)
           /\ Ends(t))
              => HeldAudioCurrent(t)]_vars

---------------------------------------------------------------------------
(* The redraw effect and the tiles it schedules *)

MaxSignal == 6

\* The viewport and the store of the session, held fixed: zoom, the first
\* visible LOD-1 column (scroll_col), the width display_w / zoom in LOD-1
\* columns, and whether the column store holds the file's tiles
RedrawZooms == {Milli(250), Milli(1000), Milli(2000), Milli(8000)}

Viewports ==
    {[op |-> "viewport", zoom |-> z, scroll_col |-> s, vis_cols |-> w, store |-> b] :
        z \in RedrawZooms, s \in {0, 3}, w \in {2, 1000}, b \in BOOLEAN}

\* lod_ratio(lod), in quarters: 1, 4, 16, 64
lod_ratio4(lod) == (4 * HopOf(1)) \div HopOf(lod)

\* The tiles first_tile..=last_tile at the ideal LOD that the viewport v
\* shows of total_cols columns; empty when vis_end <= vis_start.
\* floor((x - 0.001) / 256) for x = q / 4 with q >= 1 is (250 q - 1) div 256000.
VisibleTiles(v, total_cols, lod) ==
    LET vis_start == Min(Max(v.scroll_col, 0), Max(total_cols - 1, 0))
        vis_end   == Min(vis_start + v.vis_cols, total_cols)
        first     == (vis_start * lod_ratio4(lod)) \div (4 * TILE_COLS)
        last      == (250 * vis_end * lod_ratio4(lod) - 1) \div (1000 * TILE_COLS)
    IN  IF vis_end > vis_start THEN [first |-> first, n |-> last - first + 1]
        ELSE [first |-> 0, n |-> 0]

\* The LOD-1 call for tile t: from the store when it is complete there
Lod1Call(v, file_idx, t) ==
    ScheduleCall(IF v.store THEN "schedule_tile_from_store"
                 ELSE "schedule_tile_on_demand", "mag", file_idx, 1, t, "")

\* The schedule calls of one run of the redraw effect in the normal display
\* mode with no load in progress: for every visible tile the ideal-LOD tile
\* and, when the ideal LOD is not 1, its LOD-1 fallback tile; when it is 1,
\* a second loop over the same tiles with the LOD-1 call.  Each call is
\* made only if get_tile finds no tile.
RedrawCalls(v, file_idx) ==
    LET lod  == select_lod(v.zoom)
        vis  == VisibleTiles(v, FileAt(file_idx).columns, lod)
        all  == [j \in 1..(2 * vis.n) |->
                    IF lod # 1
                    THEN LET t == vis.first + ((j - 1) \div 2)
                         IN  IF j % 2 = 1
                             THEN ScheduleCall("schedule_tile_lod", "mag", file_idx, lod, t, "")
                             ELSE Lod1Call(v, file_idx, fallback_tile_info(lod, t, 1)[1])
                    ELSE IF j <= vis.n
                         THEN ScheduleCall("schedule_tile_lod", "mag", file_idx, 1,
                                           vis.first + (j - 1), "")
                         ELSE Lod1Call(v, file_idx, vis.first + (j - vis.n - 1))]
        Missing(c) == c.key \notin Resident(cache["mag"])
    IN  SelectSeq(all, Missing)

\* Effect 3 of the spectrogram component: it runs once when created and
\* again whenever tile_ready_signal has changed, and schedules the missing
\* visible tiles of the focused file.  The history keeps the counter value
\* the run has seen and the tiles, in-flight sets and tasks it leaves.
Redraw ==
    /\ oplog # << >>
    /\ oplog[1].op = "viewport"
    /\ IF Len(oplog) = 1 THEN TRUE ELSE oplog[2].seen # tile_ready_signal
    /\ LET after == AfterCalls(RedrawCalls(oplog[1], 0), inflight, tasks)
       IN  /\ tile_ready_signal[2] + BagCardinality(after.tasks) <= MaxSignal
           /\ inflight' = after.inflight
           /\ tasks' = after.tasks
           /\ oplog' = <<oplog[1],
                         [op |-> "redraw", seen |-> tile_ready_signal,
                          left |-> <<cache, after.inflight, after.tasks>>]>>
    /\ lastOp' = Other
    /\ UNCHANGED <<files, current_file_index, spect_fft_mode, keep_orig,
                   chroma_global_max, cache, tile_ready_signal>>

\* One fully loaded file is focused; FFT selection and viewport are fixed
InitRedraw ==
    /\ \E f \in FileUniverse : files = <<f>>
    /\ current_file_index = Some(0)
    /\ spect_fft_mode \in FftSizes
    /\ cache = [m \in Modes |-> EmptyCache]
    /\ inflight = [m \in Modes |-> {}]
    /\ tasks = EmptyBag
    /\ tile_ready_signal = <<0, 0>>
    /\ lastOp = Other
    /\ keep_orig = FALSE
    /\ chroma_global_max = << >>
    /\ \E v \in Viewports : oplog = <<v>>

NextRedraw == Redraw \/ Run

SpecRedraw == InitRedraw /\ [][NextRedraw]_vars

\* C35: with file list, viewport, zoom, FFT mode and display mode held
\* fixed on a fully loaded file and the renderer re-scheduling the missing
\* visible tiles on every change of the redraw counter, the system
\* quiesces and no tile is re-scheduled forever: a run of the redraw
\* effect that launches a task never brings back the situation its
\* previous run left (the same tiles resident, the same keys in flight,
\* the same tasks pending), from which the same round follows again.
C35_NoRecurringRound ==
    [][(/\ Len(oplog) = 2
        /\ oplog' # oplog
        /\ tasks' # tasks)
           => <<cache, inflight', tasks'>> # oplog[2].left]_vars

---------------------------------------------------------------------------
(* The yields of a schedule_tile_lod task *)

\* The yields a schedule_tile_lod task has performed when it is suspended
\* at t.pc: the first one, the one of LOD 2 and 3, and those of the loop
\* for a background file
YieldsDone(t) ==
    LET lod2 == IF t.key[2] >= 2 THEN 1 ELSE 0
    IN  CASE t.pc = "first" -> 1
          [] t.pc = "lod"   -> 2
          [] t.pc = "bg"    -> 1 + lod2 + (4 - t.left)

\* C36: a task launched by schedule_tile_lod performs exactly
\* 1 + (1 if lod >= 2) + (3 if file_idx is not the focused file when the
\* task checks) yields before it reads the audio and calls the backend,
\* and the schedule call itself leaves the tile store alone: the launch
\* leaves the task suspended at its first yield, every resumption before
\* the read performs one more yield, and the read comes at that count.
C36_YieldsBeforeRead ==
    [][/\ \A t \in Spawned :
              t.kind = "lod" => (cache' = cache /\ YieldsDone(t) = 1)
       /\ \A t \in Live :
              (t.kind = "lod" /\ CopiesIn(t, tasks') < CopiesIn(t, tasks)) =>
                 LET lod2 == IF t.key[2] >= 2 THEN 1 ELSE 0
                     bg   == t.pc = "bg" \/ ~IsCurrent(KeyFile(t.key))
                 IN  IF Ends(t)
                     THEN YieldsDone(t) = 1 + lod2 + (IF bg THEN 3 ELSE 0)
                     ELSE /\ YieldsDone(t) < 1 + lod2 + (IF bg THEN 3 ELSE 0)
                          /\ \E u \in BagToSet(tasks') :
                                /\ tasks' = (tasks (-) SetToBag({t})) (+) SetToBag({u})
                                /\ u.key = t.key /\ u.kind = "lod"
                                /\ YieldsDone(u) = YieldsDone(t) + 1]_vars

\* C36 witness: the task of a LOD-3 tile of a background file is suspended
\* at its fifth and last yield.
C36_Witness ==
    \E t \in Live :
        /\ t.kind = "lod"
        /\ t.key[2] = 3
        /\ t.pc = "bg"
        /\ t.left = 1
        /\ YieldsDone(t) = 5

---------------------------------------------------------------------------
(* schedule_visible_tiles_from_store *)

\* The arguments and the viewport of one call: total_cols, the scroll
\* offset in LOD-1 columns (scroll / time_res), the canvas width in pixels
\* and the zoom in pixels per column
VisibleArgs ==
    {[op |-> "visible_args", total_cols |-> n, scroll_col |-> s,
      canvas_w |-> w, zoom |-> z] :
        n \in {0, 1, 256, 257, 1000, 5376, 7000},
        s \in {0, 300, 2600, 6000},
        w \in {800},
        z \in {Milli(0), Milli(250), Milli(1000), Milli(8000)}}

\* center_col = ((scroll + visible_time / 2.0) / time_res) as usize, with
\* visible_time = canvas_w / zoom * time_res, or 1.0 s (50 columns to the
\* center at time_res = 0.01) when zoom is not positive
CenterCol(a) ==
    LET half == IF ZoomGeq(a.zoom, 1) THEN (a.canvas_w * 500) \div a.zoom.milli
                ELSE 50
    IN  Max(a.scroll_col + half, 0)

\* The tiles of one round of the loop: the center tile at distance 0, else
\* the tiles at dist to the left and to the right that exist
RoundTiles(center_tile, n_tiles, dist) ==
    IF dist = 0 THEN <<center_tile>>
    ELSE (IF center_tile >= dist /\ center_tile - dist < n_tiles
          THEN <<center_tile - dist>> ELSE << >>)
         \o (IF center_tile + dist < n_tiles
             THEN <<center_tile + dist>> ELSE << >>)

\* while scheduled < max_schedule { ...; if tiles.is_empty() { break; }
\* for t in tiles { schedule_tile_from_store(t); scheduled += 1; } dist += 1; }
\* The tiles scheduled, in order, after those of acc.
RECURSIVE VisibleLoop(_, _, _, _, _)
VisibleLoop(center_tile, n_tiles, max_schedule, dist, acc) ==
    IF Len(acc) >= max_schedule \/ RoundTiles(center_tile, n_tiles, dist) = << >>
    THEN acc
    ELSE VisibleLoop(center_tile, n_tiles, max_schedule, dist + 1,
                     acc \o RoundTiles(center_tile, n_tiles, dist))

\* The tiles for which schedule_visible_tiles_from_store calls
\* schedule_tile_from_store, in order
VisibleTilesFromStore(a) ==
    LET n_tiles == (a.total_cols + TILE_COLS - 1) \div TILE_COLS
    IN  IF a.total_cols = 0 THEN << >>
        ELSE VisibleLoop(CenterCol(a) \div TILE_COLS, n_tiles, Min(20, n_tiles),
                         0, << >>)

\* schedule_visible_tiles_from_store(state, file_idx, total_cols) for the
\* file at index 0; the history records the tiles of the calls
schedule_visible_tiles_from_store ==
    /\ Len(oplog) = 1
    /\ oplog[1].op = "visible_args"
    /\ LET tiles == VisibleTilesFromStore(oplog[1])
           calls == [i \in 1..Len(tiles) |->
                        ScheduleCall("schedule_tile_from_store", "mag", 0, 1, tiles[i], "")]
           after == AfterCalls(calls, inflight, tasks)
       IN  /\ inflight' = after.inflight
           /\ tasks' = after.tasks
           /\ oplog' = Append(oplog, [op |-> "schedule_visible_tiles_from_store",
                                      tiles |-> tiles])
    /\ lastOp' = Other
    /\ UNCHANGED <<files, current_file_index, spect_fft_mode, keep_orig,
                   chroma_global_max, cache, tile_ready_signal>>

InitVisible ==
    /\ files = <<FileA>>
    /\ current_file_index = Some(0)
    /\ spect_fft_mode = 2048
    /\ cache = [m \in Modes |-> EmptyCache]
    /\ inflight = [m \in Modes |-> {}]
    /\ tasks = EmptyBag
    /\ tile_ready_signal = <<0, 0>>
    /\ lastOp = Other
    /\ keep_orig = FALSE
    /\ chroma_global_max = << >>
    /\ \E a \in VisibleArgs : oplog = <<a>>

NextVisible == schedule_visible_tiles_from_store

SpecVisible == InitVisible /\ [][NextVisible]_vars

\* C37: a call of schedule_visible_tiles_from_store(file, total_cols), with
\* n_tiles = ceil(total_cols / TILE_COLS), terminates for every viewport
\* position and issues at most min(20, n_tiles) schedule_tile_from_store
\* calls, each for a tile index below n_tiles, in order of non-decreasing
\* distance from the viewport's center tile.
C37_VisibleCalls ==
    Computed("schedule_visible_tiles_from_store") =>
        LET tiles   == oplog[2].tiles
            n_tiles == CeilDiv(oplog[1].total_cols, TILE_COLS)
            center  == CenterCol(oplog[1]) \div TILE_COLS
        IN  /\ Len(tiles) <= Min(20, n_tiles)
            /\ \A i \in 1..Len(tiles) : tiles[i] < n_tiles
            /\ \A i \in 1..(Len(tiles) - 1) :
                  AbsDiff(tiles[i], center) <= AbsDiff(tiles[i + 1], center)

---------------------------------------------------------------------------
(* Replacing inserts of every size *)

\* Two keys per store
ReplaceKeys(m) == IF m = "chroma" THEN {<<0, 0>>, <<0, 1>>}
                  ELSE {<<0, 1, 0>>, <<0, 1, 1>>}

\* byte_len of the tiles: empty, 3/10 and 2/5 of the budget, and one byte
\* over the budget
ReplaceSizes == {0, (3 * MAX_BYTES) \div 10, (2 * MAX_BYTES) \div 5, MAX_BYTES + 1}

NextReplace ==
    /\ Len(oplog) < MaxOps
    /\ \E m \in OpModes :
          /\ Quiet(m)
          /\ \E key \in ReplaceKeys(m), bytes \in ReplaceSizes : SeqInsert(m, key, bytes)

SpecReplace == Init /\ [][NextReplace]_vars

\* The number of occurrences of x in the sequence s
CountIn(s, x) == Cardinality({i \in 1..Len(s) : s[i] = x})

\* C38: after insert(key, tile) returns, key is resident holding the new
\* tile and is the last (most recent) element of lru, for every tile size;
\* when key was already resident, the old tile's bytes are no longer
\* counted in total_bytes (it is the sum over the tiles now resident) and
\* key still occurs exactly once in lru.
C38_InsertPostcondition ==
    [][(Len(oplog') = Len(oplog) + 1 /\ oplog'[Len(oplog')].op = "insert") =>
          LET call == oplog'[Len(oplog')]
              c    == cache[call.mode]
              d    == cache'[call.mode]
          IN  /\ call.key \in Resident(d)
              /\ d.tiles[call.key].bytes = call.bytes
              /\ d.lru # << >>
              /\ d.lru[Len(d.lru)] = call.key
              /\ call.key \in Resident(c) =>
                    /\ CountIn(d.lru, call.key) = 1
                    /\ d.total_bytes = SumBytes(d.tiles, Resident(d))
                    /\ d.total_bytes <= SatSub(c.total_bytes, c.tiles[call.key].bytes)
                                            + call.bytes]_vars

\* C38 witness: a resident tile of 2/5 of the budget has been replaced by an
\* empty one while another tile stayed: the key is last in lru and only
\* the other tile's bytes are counted.
C38_Witness ==
    /\ Len(oplog) = 3
    /\ oplog[1].key = oplog[3].key
    /\ oplog[2].key # oplog[1].key
    /\ oplog[1].bytes = (2 * MAX_BYTES) \div 5
    /\ oplog[2].bytes = (3 * MAX_BYTES) \div 10
    /\ oplog[3].bytes = 0
    /\ cache[oplog[3].mode].lru = <<oplog[2].key, oplog[3].key>>
    /\ cache[oplog[3].mode].total_bytes = (3 * MAX_BYTES) \div 10
===========================================================================
